---- MODULE Spec2Model ----
(***************************************************************************)
(* Model of the OOSA Digital OPS message decoding and validation engine:   *)
(* src/lib/fpl-validator.ts (ICAO flight plan validator, with the          *)
(* reference tables of aviation-data) and src/lib/notam-parser.ts (NOTAM   *)
(* decoder).                                                               *)
(*                                                                         *)
(* Text is modelled at character level: a string is a sequence of          *)
(* one-character strings, so that substring, indexOf, split, trim and the  *)
(* regular expressions of the source are computed, not assumed.            *)
(***************************************************************************)
EXTENDS Integers, Sequences, FiniteSets, TLC

VARIABLES
  pc,        \* "idle" before a call, "done" when a call has returned
  call,      \* the entry point that ran last
  input,     \* its argument (a string)
  result,    \* what it returned
  sessions,  \* for each user session, the call it made last
  tables     \* the reference tables of the two modules, shared by all calls

vars == <<pc, call, input, result, sessions, tables>>

(***************************************************************************)
(* Characters                                                              *)
(***************************************************************************)
Upper ==
  {"A","B","C","D","E","F","G","H","I","J","K","L","M",
   "N","O","P","Q","R","S","T","U","V","W","X","Y","Z"}

Lower ==
  {"a","b","c","d","e","f","g","h","i","j","k","l","m",
   "n","o","p","q","r","s","t","u","v","w","x","y","z"}

Digit == {"0","1","2","3","4","5","6","7","8","9"}

\* \s restricted to the white space the inputs use
Space == {" ", "\t", "\n", "\r"}

Punct == {"(", ")", "-", "/", ".", ",", ":", "_", "\"", "*", "+", "?"}

Alphabet == Upper \cup Lower \cup Digit \cup Space \cup Punct

\* \w
WordChar == Upper \cup Lower \cup Digit \cup {"_"}

\* . (any character but a line terminator)
Dot == Alphabet \ {"\n", "\r"}

\* [A-Z] under the i flag
UpperI == Upper \cup Lower

\* [A-Z0-9]
AlNum == Upper \cup Digit

(***************************************************************************)
(* String primitives of the JavaScript runtime                             *)
(***************************************************************************)
\* s.substring(a, b) with 0-based a (inclusive) and b (exclusive)
Substring(s, a, b) ==
  LET lo == IF a < 0 THEN 0 ELSE IF a > Len(s) THEN Len(s) ELSE a
      hi == IF b < 0 THEN 0 ELSE IF b > Len(s) THEN Len(s) ELSE b
  IN  IF lo <= hi THEN SubSeq(s, lo + 1, hi) ELSE SubSeq(s, hi + 1, lo)

\* s.substring(a)
SubstringFrom(s, a) == Substring(s, a, Len(s))

SetMin(S) == CHOOSE x \in S : \A y \in S : x <= y
SetMax(S) == CHOOSE x \in S : \A y \in S : x >= y

\* s.trim(): s from its first to its last character that is not white space
Trim(s) ==
  LET solid == {i \in 1..Len(s) : s[i] \notin Space}
  IN  IF solid = {} THEN <<>> ELSE SubSeq(s, SetMin(solid), SetMax(solid))

\* s.startsWith(p)
StartsWith(s, p) == Len(s) >= Len(p) /\ SubSeq(s, 1, Len(p)) = p

\* does p occur in s at the 1-based position i
OccursAt(s, p, i) == i >= 1 /\ i + Len(p) - 1 <= Len(s) /\ SubSeq(s, i, i + Len(p) - 1) = p

\* s.indexOf(p, from): 0-based index of the first occurrence at or after from, or -1
IndexOf(s, p, from) ==
  LET at == {i \in from..(Len(s) - Len(p)) : OccursAt(s, p, i + 1)}
  IN  IF at = {} THEN -1 ELSE SetMin(at)

\* s.includes(p)
Includes(s, p) == IndexOf(s, p, 0) # -1

\* s.toUpperCase(), on the letters of the alphabet
UpperOf(c) ==
  IF c \in Lower
  THEN CHOOSE u \in Upper :
         \E i \in 1..26 :
           /\ <<"a","b","c","d","e","f","g","h","i","j","k","l","m",
                "n","o","p","q","r","s","t","u","v","w","x","y","z">>[i] = c
           /\ <<"A","B","C","D","E","F","G","H","I","J","K","L","M",
                "N","O","P","Q","R","S","T","U","V","W","X","Y","Z">>[i] = u
  ELSE c

ToUpperCase(s) == [i \in 1..Len(s) |-> UpperOf(s[i])]

\* the value of one decimal digit
DigitVal(c) ==
  CASE c = "0" -> 0 [] c = "1" -> 1 [] c = "2" -> 2 [] c = "3" -> 3 [] c = "4" -> 4
    [] c = "5" -> 5 [] c = "6" -> 6 [] c = "7" -> 7 [] c = "8" -> 8 [] c = "9" -> 9

\* parseInt(s) for a non-empty string of decimal digits
RECURSIVE ParseInt(_)
ParseInt(s) ==
  IF s = <<>> THEN 0 ELSE ParseInt(SubSeq(s, 1, Len(s) - 1)) * 10 + DigitVal(s[Len(s)])

\* String(n) for a natural number n
RECURSIVE NumToStr(_)
NumToStr(n) ==
  LET d == <<"0","1","2","3","4","5","6","7","8","9">>[(n % 10) + 1]
  IN  IF n < 10 THEN <<d>> ELSE NumToStr(n \div 10) \o <<d>>

\* parts.join(sep)
RECURSIVE Join(_, _)
Join(parts, sep) ==
  IF parts = <<>> THEN <<>>
  ELSE IF Len(parts) = 1 THEN parts[1]
  ELSE parts[1] \o sep \o Join(Tail(parts), sep)

\* s.split(c) on a one-character separator
RECURSIVE SplitChar(_, _)
SplitChar(s, c) ==
  LET i == IndexOf(s, <<c>>, 0)
  IN  IF i = -1 THEN <<s>>
      ELSE <<SubSeq(s, 1, i)>> \o SplitChar(SubSeq(s, i + 2, Len(s)), c)

(***************************************************************************)
(* Regular expressions.  A pattern is a sequence of items.  The runtime    *)
(* matches by backtracking: a greedy quantifier tries the longest          *)
(* repetition first, a lazy one the shortest, a group's alternatives are   *)
(* tried left to right, and the first way that lets the rest of the        *)
(* pattern match is the match.  The patterns of the source have no back    *)
(* references or look-arounds, so whether the rest of the pattern can      *)
(* match depends only on the position: MatchTable computes, for every item *)
(* index, the positions from which the rest of the pattern matches, and    *)
(* Walk then takes at every item the choice the backtracking search would  *)
(* end up with: the first one, in priority order, that leads to a match.   *)
(***************************************************************************)
\* max = -1 stands for "no upper limit"
Cls(S, lo, hi) == [k |-> "cls", set |-> S, min |-> lo, max |-> hi, greedy |-> TRUE]
LazyCls(S, lo, hi) == [k |-> "cls", set |-> S, min |-> lo, max |-> hi, greedy |-> FALSE]
One(S) == Cls(S, 1, 1)
Ch(c) == Cls({c}, 1, 1)
Star(S) == Cls(S, 0, -1)
Plus(S) == Cls(S, 1, -1)
Maybe(S) == Cls(S, 0, 1)
Open(g) == [k |-> "open", g |-> g]
Close(g) == [k |-> "close", g |-> g]
Bol == [k |-> "bol"]
Eol == [k |-> "eol"]
Wb == [k |-> "wb"]

\* (?:sub)? is written <<OptGroup(Len(sub))>> \o sub
OptGroup(n) == [k |-> "opt", len |-> n]

\* (a|b|...) for alternatives that are sequences of character sets
AltGroup(subs) == [k |-> "alt", subs |-> subs]

\* a literal string as a pattern
Lit(s) == [i \in 1..Len(s) |-> Ch(s[i])]

\* a literal string as one alternative of an AltGroup
LitSets(s) == [i \in 1..Len(s) |-> {s[i]}]

MaxGroups == 9

NoCaps == [g \in 1..MaxGroups |-> <<0, 0>>]

NoMatch == [ok |-> FALSE]

IsWordAt(s, i) == i >= 1 /\ i <= Len(s) /\ s[i] \in WordChar

\* the characters s[pos..e-1] are all in set
RunIn(s, set, pos, e) == \A j \in pos..(e - 1) : s[j] \in set

\* the alternative sets (a sequence of character sets) matches s at pos
FixedAt(s, sets, pos) ==
  /\ pos >= 1
  /\ pos + Len(sets) - 1 <= Len(s)
  /\ \A j \in 1..Len(sets) : s[pos + j - 1] \in sets[j]

\* the positions from which the quantified class it can reach position e;
\* bad are the positions of s whose character is not in the class
ClsStarts(it, bad, e) ==
  LET before == IF (e - 1) \in bad THEN {e - 1} ELSE {j \in bad : j < e}
      afterBad == IF before = {} THEN 1 ELSE SetMax(before) + 1
      lo == IF it.max # -1 /\ e - it.max > afterBad THEN e - it.max ELSE afterBad
  IN  lo..(e - it.min)

\* the positions from which item it and then the rest of the pattern match;
\* later[1] are the positions from which the rest matches, later[j] those for
\* the pattern after the j-1 items that follow it
StepBack(it, later, s) ==
  CASE it.k = "cls" ->
         IF it.min = 1 /\ it.max = 1
         THEN {e - 1 : e \in {x \in later[1] : x > 1 /\ s[x - 1] \in it.set}}
         ELSE LET bad == {j \in 1..Len(s) : s[j] \notin it.set}
              IN  UNION {ClsStarts(it, bad, e) : e \in later[1]}
    [] it.k = "open" -> later[1]
    [] it.k = "close" -> later[1]
    [] it.k = "bol" -> later[1] \cap {1}
    [] it.k = "eol" -> later[1] \cap {Len(s) + 1}
    [] it.k = "wb" -> {pos \in later[1] : IsWordAt(s, pos - 1) # IsWordAt(s, pos)}
    [] it.k = "opt" -> later[1] \cup later[it.len + 1]
    [] it.k = "alt" ->
         {e - Len(it.subs[a]) : a \in 1..Len(it.subs), e \in later[1]}
           \cap {pos \in 1..(Len(s) + 1) :
                   \E a \in 1..Len(it.subs) :
                     FixedAt(s, it.subs[a], pos) /\ (pos + Len(it.subs[a])) \in later[1]}

\* BackTable(re, lo, hi, s, later): later is the table of the items after hi
\* (later[j] = the positions from which re[hi+j ..] matches); the result is
\* the table of the items from lo on.  The range is halved so that the
\* evaluation never nests deeper than the logarithm of the pattern's length;
\* no position left to match from ends the computation early.
RECURSIVE BackTable(_, _, _, _, _)
BackTable(re, lo, hi, s, later) ==
  IF lo > hi THEN later
  ELSE IF lo = hi THEN <<StepBack(re[lo], later, s)>> \o later
  ELSE LET mid == (lo + hi) \div 2
           right == BackTable(re, mid + 1, hi, s, later)
       IN  IF right[1] = {}
           THEN [j \in 1..(mid - lo + 1) |-> {}] \o right
           ELSE BackTable(re, lo, mid, s, right)

\* MatchTable(re, s)[i] = the positions from which re[i ..] matches in s
MatchTable(re, s) == BackTable(re, 1, Len(re), s, <<1..(Len(s) + 1)>>)

\* where the quantified class it, matched at pos, leaves the position, given
\* the positions ends from which the rest matches
ClsEnd(it, s, pos, ends) ==
  LET cand == {e \in ends : /\ e >= pos + it.min
                            /\ (it.max = -1 \/ e <= pos + it.max)
                            /\ RunIn(s, it.set, pos, e)}
  IN  IF it.greedy THEN SetMax(cand) ELSE SetMin(cand)

\* the first alternative that matches at pos and lets the rest match
AltEnd(it, s, pos, ends) ==
  pos + Len(it.subs[SetMin({a \in 1..Len(it.subs) :
                              FixedAt(s, it.subs[a], pos)
                              /\ (pos + Len(it.subs[a])) \in ends})])

\* one item of the walk: st.i is the index of the item to match next
WalkItem(re, tab, s, st) ==
  LET it == re[st.i]
      i == st.i
  IN  CASE it.k = "cls" ->
             [st EXCEPT !.i = i + 1, !.end = ClsEnd(it, s, st.end, tab[i + 1])]
        [] it.k = "open" ->
             [st EXCEPT !.i = i + 1, !.caps[it.g] = <<st.end, 0>>]
        [] it.k = "close" ->
             [st EXCEPT !.i = i + 1, !.caps[it.g] = <<@[1], st.end>>]
        [] it.k = "opt" ->
             [st EXCEPT !.i = IF st.end \in tab[i + 1] THEN i + 1 ELSE i + 1 + it.len]
        [] it.k = "alt" ->
             [st EXCEPT !.i = i + 1, !.end = AltEnd(it, s, st.end, tab[i + 1])]
        [] OTHER -> [st EXCEPT !.i = i + 1]

\* the walk through the items lo..hi (an item a skipped group holds is passed
\* over), halved like BackTable
RECURSIVE Walk(_, _, _, _, _, _)
Walk(re, tab, lo, hi, s, st) ==
  IF lo > hi \/ st.i > hi THEN st
  ELSE IF lo = hi THEN (IF st.i = lo THEN WalkItem(re, tab, s, st) ELSE st)
  ELSE LET mid == (lo + hi) \div 2
           left == Walk(re, tab, lo, mid, s, st)
       IN  IF left.i > hi THEN left ELSE Walk(re, tab, mid + 1, hi, s, left)

\* the leftmost match of the pattern in s starting at or after position from,
\* given the pattern's table for s
SearchIn(re, tab, s, from) ==
  LET starts == {p \in tab[1] : p >= from}
  IN  IF starts = {} THEN NoMatch
      ELSE LET st == Walk(re, tab, 1, Len(re), s,
                          [i |-> 1, end |-> SetMin(starts), caps |-> NoCaps])
           IN  [ok |-> TRUE, start |-> SetMin(starts), end |-> st.end, caps |-> st.caps]

Search(re, s, from) == SearchIn(re, MatchTable(re, s), s, from)

\* s.match(re) without the g flag
Match(re, s) == Search(re, s, 1)

\* re.test(s)
Test(re, s) == MatchTable(re, s)[1] # {}

\* match[g]: the text of capture group g (only for a group that took part)
Group(m, s, g) == SubSeq(s, m.caps[g][1], m.caps[g][2] - 1)

\* did capture group g take part in the match
HasGroup(m, g) == m.caps[g][2] > 0

\* the matches of a g-flag scan, left to right from position from: after a
\* match the scan resumes at its end (one further after an empty match)
RECURSIVE ScanAll(_, _, _, _)
ScanAll(re, tab, s, from) ==
  LET m == SearchIn(re, tab, s, from)
  IN  IF ~m.ok THEN <<>>
      ELSE <<m>> \o ScanAll(re, tab, s, IF m.end = m.start THEN m.end + 1 ELSE m.end)

Matches(re, s) == ScanAll(re, MatchTable(re, s), s, 1)

\* the text of s between the matches ms[k..], each match m replaced by To(m)
RECURSIVE Splice(_, _, _, _, _)
Splice(To(_), s, ms, k, from) ==
  IF k > Len(ms) THEN SubSeq(s, from, Len(s))
  ELSE SubSeq(s, from, ms[k].start - 1) \o To(ms[k]) \o Splice(To, s, ms, k + 1, ms[k].end)

\* s.replace(re, replacer) with the g flag
ReplaceAllBy(re, s, To(_)) == Splice(To, s, Matches(re, s), 1, 1)

\* s.replace(re, to) with the g flag and a replacement without $ references
ReplaceAll(re, s, to) == ReplaceAllBy(re, s, LAMBDA m : to)

\* s.match(re) with the g flag: the matched texts, left to right
MatchAll(re, s) ==
  LET ms == Matches(re, s) IN [k \in 1..Len(ms) |-> SubSeq(s, ms[k].start, ms[k].end - 1)]

\* s.split(re), for a pattern that never matches the empty string
SplitRe(re, s) ==
  LET ms == Matches(re, s)
  IN  [k \in 1..(Len(ms) + 1) |->
         SubSeq(s, IF k = 1 THEN 1 ELSE ms[k - 1].end,
                   IF k > Len(ms) THEN Len(s) ELSE ms[k].start - 1)]

(***************************************************************************)
(* Reference tables (aviation-data).  A table is the sequence of its       *)
(* entries in the order of the object literal, which is the order          *)
(* Object.keys and Object.entries enumerate.                               *)
(***************************************************************************)
\* aviation-data: EQUIPMENT_COM_NAV
EQUIPMENT_COM_NAV ==
  <<
    [key |-> <<"N">>, name |-> "No COM/NAV/approach equipment"],
    [key |-> <<"S">>, name |-> "Standard (VHF RTF, VOR, ILS)"],
    [key |-> <<"A">>, name |-> "GBAS landing system"],
    [key |-> <<"B">>, name |-> "LPV (APV with SBAS)"],
    [key |-> <<"C">>, name |-> "LORAN C"],
    [key |-> <<"D">>, name |-> "DME"],
    [key |-> <<"E","1">>, name |-> "FMC WPR ACARS"],
    [key |-> <<"E","2">>, name |-> "D-FIS ACARS"],
    [key |-> <<"E","3">>, name |-> "PDC ACARS"],
    [key |-> <<"F">>, name |-> "ADF"],
    [key |-> <<"G">>, name |-> "GNSS"],
    [key |-> <<"H">>, name |-> "HF RTF"],
    [key |-> <<"I">>, name |-> "Inertial navigation"],
    [key |-> <<"J","1">>, name |-> "CPDLC ATN VDL Mode 2"],
    [key |-> <<"J","2">>, name |-> "CPDLC FANS 1/A HFDL"],
    [key |-> <<"J","3">>, name |-> "CPDLC FANS 1/A VDL Mode A"],
    [key |-> <<"J","4">>, name |-> "CPDLC FANS 1/A VDL Mode 2"],
    [key |-> <<"J","5">>, name |-> "CPDLC FANS 1/A SATCOM (INMARSAT)"],
    [key |-> <<"J","6">>, name |-> "CPDLC FANS 1/A SATCOM (MTSAT)"],
    [key |-> <<"J","7">>, name |-> "CPDLC FANS 1/A SATCOM (Iridium)"],
    [key |-> <<"K">>, name |-> "MLS"],
    [key |-> <<"L">>, name |-> "ILS"],
    [key |-> <<"M","1">>, name |-> "ATC RTF SATCOM (INMARSAT)"],
    [key |-> <<"M","2">>, name |-> "ATC RTF SATCOM (MTSAT)"],
    [key |-> <<"M","3">>, name |-> "ATC RTF SATCOM (Iridium)"],
    [key |-> <<"O">>, name |-> "VOR"],
    [key |-> <<"P","1">>, name |-> "CPDLC RCP 400"],
    [key |-> <<"P","2">>, name |-> "CPDLC RCP 240"],
    [key |-> <<"P","3">>, name |-> "SATVOICE RCP 400"],
    [key |-> <<"R">>, name |-> "PBN approved"],
    [key |-> <<"T">>, name |-> "TACAN"],
    [key |-> <<"U">>, name |-> "UHF RTF"],
    [key |-> <<"V">>, name |-> "VHF RTF"],
    [key |-> <<"W">>, name |-> "RVSM approved"],
    [key |-> <<"X">>, name |-> "MNPS approved"],
    [key |-> <<"Y">>, name |-> "VHF with 8.33 kHz spacing"],
    [key |-> <<"Z">>, name |-> "Other equipment (specify in Field 18)"]
  >>

\* aviation-data: EQUIPMENT_SSR
EQUIPMENT_SSR ==
  <<
    [key |-> <<"N">>, name |-> "Nil surveillance equipment"],
    [key |-> <<"A">>, name |-> "Transponder Mode A (4 digits, no altitude)"],
    [key |-> <<"C">>, name |-> "Transponder Mode A+C"],
    [key |-> <<"E">>, name |-> "Transponder Mode S (aircraft ID + pressure altitude)"],
    [key |-> <<"H">>, name |-> "Transponder Mode S (aircraft ID + pressure altitude + enhanced surveillance)"],
    [key |-> <<"I">>, name |-> "Transponder Mode S (aircraft ID, no pressure altitude)"],
    [key |-> <<"L">>, name |-> "Transponder Mode S (aircraft ID + pressure altitude + enhanced surveillance + ADS-B)"],
    [key |-> <<"P">>, name |-> "Transponder Mode S (pressure altitude, no aircraft ID)"],
    [key |-> <<"S">>, name |-> "Transponder Mode S (both aircraft ID + pressure altitude)"],
    [key |-> <<"X">>, name |-> "Transponder Mode S (no aircraft ID, no pressure altitude)"],
    [key |-> <<"B","1">>, name |-> "ADS-B with dedicated 1090 MHz out"],
    [key |-> <<"B","2">>, name |-> "ADS-B with dedicated 1090 MHz in/out"],
    [key |-> <<"U","1">>, name |-> "ADS-B out (UAT)"],
    [key |-> <<"U","2">>, name |-> "ADS-B in/out (UAT)"],
    [key |-> <<"V","1">>, name |-> "ADS-B out (VDL Mode 4)"],
    [key |-> <<"V","2">>, name |-> "ADS-B in/out (VDL Mode 4)"],
    [key |-> <<"D","1">>, name |-> "ADS-C (FANS 1/A)"]
  >>

\* aviation-data: PBN_CODES
PBN_CODES ==
  <<
    [key |-> <<"A","1">>, name |-> "RNAV 10 (RNP 10)"],
    [key |-> <<"B","1">>, name |-> "RNAV 5 (all sensors)"],
    [key |-> <<"B","2">>, name |-> "RNAV 5 (GNSS)"],
    [key |-> <<"B","3">>, name |-> "RNAV 5 (DME/DME)"],
    [key |-> <<"B","4">>, name |-> "RNAV 5 (VOR/DME)"],
    [key |-> <<"B","5">>, name |-> "RNAV 5 (INS or IRS)"],
    [key |-> <<"B","6">>, name |-> "RNAV 5 (LORAN C)"],
    [key |-> <<"C","1">>, name |-> "RNAV 2 (all sensors)"],
    [key |-> <<"C","2">>, name |-> "RNAV 2 (GNSS)"],
    [key |-> <<"C","3">>, name |-> "RNAV 2 (DME/DME)"],
    [key |-> <<"C","4">>, name |-> "RNAV 2 (DME/DME/IRU)"],
    [key |-> <<"D","1">>, name |-> "RNAV 1 (all sensors)"],
    [key |-> <<"D","2">>, name |-> "RNAV 1 (GNSS)"],
    [key |-> <<"D","3">>, name |-> "RNAV 1 (DME/DME)"],
    [key |-> <<"D","4">>, name |-> "RNAV 1 (DME/DME/IRU)"],
    [key |-> <<"L","1">>, name |-> "RNP 4"],
    [key |-> <<"O","1">>, name |-> "Basic RNP 1 (all sensors)"],
    [key |-> <<"O","2">>, name |-> "Basic RNP 1 (GNSS)"],
    [key |-> <<"O","3">>, name |-> "Basic RNP 1 (DME/DME)"],
    [key |-> <<"O","4">>, name |-> "Basic RNP 1 (DME/DME/IRU)"],
    [key |-> <<"S","1">>, name |-> "RNP APCH"],
    [key |-> <<"S","2">>, name |-> "RNP APCH with BARO-VNAV"],
    [key |-> <<"T","1">>, name |-> "RNP AR APCH (RF required)"],
    [key |-> <<"T","2">>, name |-> "RNP AR APCH (RF not required)"]
  >>

\* aviation-data: FLIGHT_RULES
FLIGHT_RULES ==
  <<
    [key |-> <<"I">>, name |-> "IFR (Instrument Flight Rules)"],
    [key |-> <<"V">>, name |-> "VFR (Visual Flight Rules)"],
    [key |-> <<"Y">>, name |-> "IFR first, then VFR"],
    [key |-> <<"Z">>, name |-> "VFR first, then IFR"]
  >>

\* aviation-data: FLIGHT_TYPES
FLIGHT_TYPES ==
  <<
    [key |-> <<"S">>, name |-> "Scheduled air service"],
    [key |-> <<"N">>, name |-> "Non-scheduled air service"],
    [key |-> <<"G">>, name |-> "General aviation"],
    [key |-> <<"M">>, name |-> "Military"],
    [key |-> <<"X">>, name |-> "Other"]
  >>

\* aviation-data: PERFORMANCE_CATEGORIES
PERFORMANCE_CATEGORIES ==
  <<
    [key |-> <<"A">>, name |-> "< 91 kt approach speed"],
    [key |-> <<"B">>, name |-> "91-120 kt approach speed"],
    [key |-> <<"C">>, name |-> "121-140 kt approach speed"],
    [key |-> <<"D">>, name |-> "141-165 kt approach speed"],
    [key |-> <<"E">>, name |-> "> 166 kt approach speed"]
  >>

\* aviation-data: OMAN_AIRPORTS
OMAN_AIRPORTS ==
  <<
    [key |-> <<"O","O","S","A">>, name |-> "Salalah International Airport"],
    [key |-> <<"O","O","M","S">>, name |-> "Muscat International Airport"],
    [key |-> <<"O","O","F","D">>, name |-> "Fahud Airport"],
    [key |-> <<"O","O","K","B">>, name |-> "Khasab Airport"],
    [key |-> <<"O","O","B","K">>, name |-> "Sohar Airport"],
    [key |-> <<"O","O","M","A">>, name |-> "Musandam Airport"],
    [key |-> <<"O","O","D","Q">>, name |-> "Duqm International Airport"],
    [key |-> <<"O","O","R","Q">>, name |-> "Ras Al Hadd Airport"]
  >>

\* aviation-data: GCC_AIRPORTS
GCC_AIRPORTS ==
  <<
    [key |-> <<"O","M","D","B">>, name |-> "Dubai International Airport"],
    [key |-> <<"O","M","D","W">>, name |-> "Al Maktoum International Airport"],
    [key |-> <<"O","M","A","D">>, name |-> "Abu Dhabi International Airport"],
    [key |-> <<"O","M","S","J">>, name |-> "Sharjah International Airport"],
    [key |-> <<"O","M","A","A">>, name |-> "Al Ain International Airport"],
    [key |-> <<"O","T","H","H">>, name |-> "Hamad International Airport"],
    [key |-> <<"O","B","B","I">>, name |-> "Bahrain International Airport"],
    [key |-> <<"O","E","J","N">>, name |-> "King Abdulaziz Intl Airport"],
    [key |-> <<"O","E","R","K">>, name |-> "King Khalid International Airport"],
    [key |-> <<"O","E","M","A">>, name |-> "Prince Mohammed Intl Airport"],
    [key |-> <<"O","K","B","K">>, name |-> "Kuwait International Airport"]
  >>

\* aviation-data: COMMON_AIRPORTS (the two spreads, then the literal entries)
COMMON_AIRPORTS ==
  OMAN_AIRPORTS \o GCC_AIRPORTS \o
  <<
    [key |-> <<"E","G","L","L">>, name |-> "London Heathrow"],
    [key |-> <<"L","F","P","G">>, name |-> "Paris CDG"],
    [key |-> <<"E","D","D","F">>, name |-> "Frankfurt"],
    [key |-> <<"V","A","B","B">>, name |-> "Mumbai"],
    [key |-> <<"V","I","D","P">>, name |-> "Delhi"],
    [key |-> <<"V","E","C","C">>, name |-> "Kolkata"],
    [key |-> <<"O","P","K","C">>, name |-> "Karachi"],
    [key |-> <<"H","E","C","A">>, name |-> "Cairo"],
    [key |-> <<"H","S","S","S">>, name |-> "Khartoum"],
    [key |-> <<"H","A","A","B">>, name |-> "Addis Ababa"],
    [key |-> <<"H","T","D","A">>, name |-> "Dar es Salaam"],
    [key |-> <<"F","A","O","R">>, name |-> "Johannesburg"]
  >>

\* aviation-data: WAKE_CATEGORIES
WAKE_CATEGORIES ==
  <<
    [key |-> <<"L">>, label |-> "Light", mtow |-> "< 7,000 kg"],
    [key |-> <<"M">>, label |-> "Medium", mtow |-> "7,000 - 136,000 kg"],
    [key |-> <<"H">>, label |-> "Heavy", mtow |-> "> 136,000 kg"],
    [key |-> <<"J">>, label |-> "Super", mtow |-> "A380 / AN-225"]
  >>

\* aviation-data: FIELD18_PREFIXES, in the order of the object literal
FIELD18_PREFIXES ==
  <<
    [key |-> <<"S","T","S","/">>, name |-> "Status"],
    [key |-> <<"P","B","N","/">>, name |-> "PBN Capability"],
    [key |-> <<"N","A","V","/">>, name |-> "Navigation Equipment"],
    [key |-> <<"C","O","M","/">>, name |-> "Communication"],
    [key |-> <<"D","A","T","/">>, name |-> "Data Link"],
    [key |-> <<"S","U","R","/">>, name |-> "Surveillance"],
    [key |-> <<"D","E","P","/">>, name |-> "Departure"],
    [key |-> <<"D","E","S","T","/">>, name |-> "Destination"],
    [key |-> <<"D","O","F","/">>, name |-> "Date of Flight"],
    [key |-> <<"R","E","G","/">>, name |-> "Registration"],
    [key |-> <<"E","E","T","/">>, name |-> "Elapsed Time"],
    [key |-> <<"S","E","L","/">>, name |-> "SELCAL"],
    [key |-> <<"T","Y","P","/">>, name |-> "Type"],
    [key |-> <<"C","O","D","E","/">>, name |-> "Aircraft Address"],
    [key |-> <<"D","L","E","/">>, name |-> "Delay"],
    [key |-> <<"O","P","R","/">>, name |-> "Operator"],
    [key |-> <<"O","R","G","N","/">>, name |-> "Originator"],
    [key |-> <<"P","E","R","/">>, name |-> "Performance"],
    [key |-> <<"A","L","T","N","/">>, name |-> "Alternate"],
    [key |-> <<"R","A","L","T","/">>, name |-> "En-route Alternate"],
    [key |-> <<"T","A","L","T","/">>, name |-> "Takeoff Alternate"],
    [key |-> <<"R","I","F","/">>, name |-> "Revised Route"],
    [key |-> <<"R","V","R","/">>, name |-> "RVR"],
    [key |-> <<"R","M","K","/">>, name |-> "Remarks"]
  >>

\* aviation-data: AIRCRAFT_TYPES
AIRCRAFT_TYPES ==
  <<
    [key |-> <<"A","2","0","N">>, name |-> "Airbus A320neo", wake |-> <<"M">>],
    [key |-> <<"A","2","1","N">>, name |-> "Airbus A321neo", wake |-> <<"M">>],
    [key |-> <<"A","3","1","8">>, name |-> "Airbus A318", wake |-> <<"M">>],
    [key |-> <<"A","3","1","9">>, name |-> "Airbus A319", wake |-> <<"M">>],
    [key |-> <<"A","3","2","0">>, name |-> "Airbus A320", wake |-> <<"M">>],
    [key |-> <<"A","3","2","1">>, name |-> "Airbus A321", wake |-> <<"M">>],
    [key |-> <<"A","3","3","2">>, name |-> "Airbus A330-200", wake |-> <<"H">>],
    [key |-> <<"A","3","3","3">>, name |-> "Airbus A330-300", wake |-> <<"H">>],
    [key |-> <<"A","3","3","9">>, name |-> "Airbus A330-900neo", wake |-> <<"H">>],
    [key |-> <<"A","3","4","0">>, name |-> "Airbus A340", wake |-> <<"H">>],
    [key |-> <<"A","3","5","9">>, name |-> "Airbus A350-900", wake |-> <<"H">>],
    [key |-> <<"A","3","5","K">>, name |-> "Airbus A350-1000", wake |-> <<"H">>],
    [key |-> <<"A","3","8","0">>, name |-> "Airbus A380", wake |-> <<"J">>],
    [key |-> <<"A","3","8","8">>, name |-> "Airbus A380-800", wake |-> <<"J">>],
    [key |-> <<"B","7","3","3">>, name |-> "Boeing 737-300", wake |-> <<"M">>],
    [key |-> <<"B","7","3","4">>, name |-> "Boeing 737-400", wake |-> <<"M">>],
    [key |-> <<"B","7","3","5">>, name |-> "Boeing 737-500", wake |-> <<"M">>],
    [key |-> <<"B","7","3","8">>, name |-> "Boeing 737-800", wake |-> <<"M">>],
    [key |-> <<"B","7","3","9">>, name |-> "Boeing 737-900", wake |-> <<"M">>],
    [key |-> <<"B","3","7","M">>, name |-> "Boeing 737 MAX 8", wake |-> <<"M">>],
    [key |-> <<"B","3","8","M">>, name |-> "Boeing 737 MAX 8-200", wake |-> <<"M">>],
    [key |-> <<"B","3","9","M">>, name |-> "Boeing 737 MAX 9", wake |-> <<"M">>],
    [key |-> <<"B","7","4","4">>, name |-> "Boeing 747-400", wake |-> <<"H">>],
    [key |-> <<"B","7","4","8">>, name |-> "Boeing 747-8", wake |-> <<"H">>],
    [key |-> <<"B","7","6","3">>, name |-> "Boeing 767-300", wake |-> <<"H">>],
    [key |-> <<"B","7","7","2">>, name |-> "Boeing 777-200", wake |-> <<"H">>],
    [key |-> <<"B","7","7","3">>, name |-> "Boeing 777-300", wake |-> <<"H">>],
    [key |-> <<"B","7","7","L">>, name |-> "Boeing 777-200LR", wake |-> <<"H">>],
    [key |-> <<"B","7","7","W">>, name |-> "Boeing 777-300ER", wake |-> <<"H">>],
    [key |-> <<"B","7","8","8">>, name |-> "Boeing 787-8", wake |-> <<"H">>],
    [key |-> <<"B","7","8","9">>, name |-> "Boeing 787-9", wake |-> <<"H">>],
    [key |-> <<"B","7","8","X">>, name |-> "Boeing 787-10", wake |-> <<"H">>],
    [key |-> <<"E","1","7","0">>, name |-> "Embraer 170", wake |-> <<"M">>],
    [key |-> <<"E","1","9","0">>, name |-> "Embraer 190", wake |-> <<"M">>],
    [key |-> <<"E","1","9","5">>, name |-> "Embraer 195", wake |-> <<"M">>],
    [key |-> <<"A","T","7","2">>, name |-> "ATR 72", wake |-> <<"M">>],
    [key |-> <<"A","T","7","5">>, name |-> "ATR 72-500", wake |-> <<"M">>],
    [key |-> <<"A","T","7","6">>, name |-> "ATR 72-600", wake |-> <<"M">>],
    [key |-> <<"D","H","8","D">>, name |-> "Dash 8 Q400", wake |-> <<"M">>],
    [key |-> <<"C","R","J","7">>, name |-> "CRJ-700", wake |-> <<"M">>],
    [key |-> <<"C","R","J","9">>, name |-> "CRJ-900", wake |-> <<"M">>],
    [key |-> <<"C","1","7","2">>, name |-> "Cessna 172", wake |-> <<"L">>],
    [key |-> <<"C","2","0","8">>, name |-> "Cessna 208 Caravan", wake |-> <<"L">>],
    [key |-> <<"A","N","2","5">>, name |-> "Antonov An-225 Mriya", wake |-> <<"J">>]
  >>

\* aviation-data: QCODE_SUBJECT
QCODE_SUBJECT ==
  <<
    [key |-> <<"A">>, label |-> <<"A", "e", "r", "o", "d", "r", "o", "m", "e">>],
    [key |-> <<"C">>, label |-> <<"E", "n", "-", "r", "o", "u", "t", "e", " ", "A", "T", "S", " ", "c", "o", "m", "m", "u", "n", "i", "c", "a", "t", "i", "o", "n", " ", "f", "a", "c", "i", "l", "i", "t", "y", " ", "o", "r", " ", "s", "e", "r", "v", "i", "c", "e">>],
    [key |-> <<"F">>, label |-> <<"E", "n", "-", "r", "o", "u", "t", "e", " ", "n", "a", "v", "i", "g", "a", "t", "i", "o", "n", " ", "f", "a", "c", "i", "l", "i", "t", "y", " ", "o", "r", " ", "s", "e", "r", "v", "i", "c", "e">>],
    [key |-> <<"I">>, label |-> <<"I", "n", "s", "t", "r", "u", "m", "e", "n", "t", " ", "a", "p", "p", "r", "o", "a", "c", "h", " ", "p", "r", "o", "c", "e", "d", "u", "r", "e">>],
    [key |-> <<"L">>, label |-> <<"L", "i", "g", "h", "t", "i", "n", "g", " ", "f", "a", "c", "i", "l", "i", "t", "y">>],
    [key |-> <<"M">>, label |-> <<"M", "o", "v", "e", "m", "e", "n", "t", " ", "a", "n", "d", " ", "l", "a", "n", "d", "i", "n", "g", " ", "a", "r", "e", "a">>],
    [key |-> <<"N">>, label |-> <<"O", "t", "h", "e", "r", " ", "a", "r", "e", "a", " ", "n", "a", "v", "i", "g", "a", "t", "i", "o", "n", " ", "i", "n", "f", "o", "r", "m", "a", "t", "i", "o", "n">>],
    [key |-> <<"O">>, label |-> <<"O", "b", "s", "t", "a", "c", "l", "e", " ", "(", "o", "t", "h", "e", "r", " ", "t", "h", "a", "n", " ", "n", "a", "v", "i", "g", "a", "t", "i", "o", "n", " ", "w", "a", "r", "n", "i", "n", "g", ")">>],
    [key |-> <<"P">>, label |-> <<"A", "i", "r", " ", "t", "r", "a", "f", "f", "i", "c", " ", "p", "r", "o", "c", "e", "d", "u", "r", "e", "s">>],
    [key |-> <<"R">>, label |-> <<"A", "i", "r", "s", "p", "a", "c", "e", " ", "r", "e", "s", "t", "r", "i", "c", "t", "i", "o", "n">>],
    [key |-> <<"S">>, label |-> <<"A", "T", "S", " ", "r", "o", "u", "t", "e">>],
    [key |-> <<"W">>, label |-> <<"N", "a", "v", "i", "g", "a", "t", "i", "o", "n", " ", "w", "a", "r", "n", "i", "n", "g">>],
    [key |-> <<"X">>, label |-> <<"O", "t", "h", "e", "r">>]
  >>

\* aviation-data: QCODE_CONDITION
QCODE_CONDITION ==
  <<
    [key |-> <<"A">>, label |-> <<"A", "v", "a", "i", "l", "a", "b", "l", "e", "/", "O", "p", "e", "r", "a", "t", "i", "o", "n", "a", "l", "/", "A", "c", "t", "i", "v", "a", "t", "e", "d", "/", "O", "p", "e", "n">>],
    [key |-> <<"C">>, label |-> <<"C", "l", "o", "s", "e", "d", "/", "W", "i", "t", "h", "d", "r", "a", "w", "n">>],
    [key |-> <<"H">>, label |-> <<"T", "e", "m", "p", "o", "r", "a", "r", "i", "l", "y", " ", "r", "e", "s", "t", "r", "i", "c", "t", "e", "d", "/", "H", "a", "z", "a", "r", "d", " ", "e", "x", "i", "s", "t", "s">>],
    [key |-> <<"K">>, label |-> <<"R", "e", "t", "u", "r", "n", "e", "d", " ", "t", "o", " ", "s", "e", "r", "v", "i", "c", "e">>],
    [key |-> <<"L">>, label |-> <<"L", "i", "m", "i", "t", "a", "t", "i", "o", "n">>],
    [key |-> <<"O">>, label |-> <<"O", "p", "e", "r", "a", "t", "i", "o", "n", "a", "l">>],
    [key |-> <<"P">>, label |-> <<"P", "a", "r", "t", "i", "a", "l", "l", "y", " ", "a", "v", "a", "i", "l", "a", "b", "l", "e">>],
    [key |-> <<"R">>, label |-> <<"R", "e", "p", "l", "a", "c", "e", "m", "e", "n", "t", " ", "a", "v", "a", "i", "l", "a", "b", "l", "e">>],
    [key |-> <<"S">>, label |-> <<"S", "u", "p", "p", "r", "e", "s", "s", "e", "d">>],
    [key |-> <<"U">>, label |-> <<"U", "n", "s", "e", "r", "v", "i", "c", "e", "a", "b", "l", "e">>],
    [key |-> <<"W">>, label |-> <<"W", "h", "o", "l", "l", "y", " ", "u", "n", "a", "v", "a", "i", "l", "a", "b", "l", "e">>]
  >>

\* key in table: table[key] is defined (hence truthy: no entry is empty)
Has(table, key) == \E i \in 1..Len(table) : table[i].key = key

\* table[key], for a key of the table
Entry(table, key) == table[CHOOSE i \in 1..Len(table) : table[i].key = key]

\* a value that is absent (undefined)
Undefined == <<"<undefined>">>

(***************************************************************************)
(* parseFPL                                                                *)
(***************************************************************************)
\* [A-Z0-9] under the i flag
AlNumI == Upper \cup Lower \cup Digit

\* \s*-\s*
DashSep == <<Star(Space), Ch("-"), Star(Space)>>

\* \s*\n?\s*-\s*
LineDashSep == <<Star(Space), Maybe({"\n"}), Star(Space), Ch("-"), Star(Space)>>

\* the strict pattern of parseFPL (flag i)
StrictFplRe ==
  <<Bol, Maybe({"("}),
    Open(1), One({"F","f"}), One({"P","p"}), One({"L","l"}), Close(1)>>
  \o DashSep \o <<Open(2), Cls(AlNumI, 2, 7), Close(2)>>
  \o DashSep \o <<Open(3), One({"I","V","Y","Z","i","v","y","z"}),
                  One({"S","N","G","M","X","s","n","g","m","x"}), Close(3)>>
  \o LineDashSep \o <<Open(4), LazyCls(Dot, 1, -1), Close(4)>>
  \o DashSep \o <<Open(5), Cls(UpperI, 4, 4), Cls(Digit, 4, 4), Close(5)>>
  \o LineDashSep \o <<Open(6), LazyCls(Dot, 1, -1), Close(6)>>
  \o DashSep \o <<Open(7), LazyCls(Dot, 1, -1), Close(7)>>
  \o LineDashSep \o <<Open(8), LazyCls(Dot, 0, -1), Close(8)>>
  \o <<OptGroup(Len(DashSep) + 3)>> \o DashSep \o <<Open(9), LazyCls(Dot, 0, -1), Close(9)>>
  \o <<Star(Space), Maybe({")"}), Eol>>

\* s.replace(re, to) without the g flag: the first match only
ReplaceFirst(re, s, to) ==
  LET m == Search(re, s, 1)
  IN  IF ~m.ok THEN s
      ELSE SubSeq(s, 1, m.start - 1) \o to \o SubSeq(s, m.end, Len(s))

\* raw.replace(/\r?\n/g, " ").replace(/\s+/g, " ").trim()
CleanFpl(raw) ==
  Trim(ReplaceAll(<<Plus(Space)>>,
                  ReplaceAll(<<Maybe({"\r"}), Ch("\n")>>, raw, <<" ">>),
                  <<" ">>))

\* the groups of the strict pattern as a ParsedFPL
StrictParse(cleaned, m) ==
  [raw |-> cleaned,
   field3 |-> Group(m, cleaned, 1),
   field7 |-> Group(m, cleaned, 2),
   field8 |-> Group(m, cleaned, 3),
   field9 |-> Trim(Group(m, cleaned, 4)),
   field10 |-> <<>>,
   field13 |-> Group(m, cleaned, 5),
   field15 |-> Trim(Group(m, cleaned, 6)),
   field16 |-> Trim(Group(m, cleaned, 7)),
   field18 |-> IF HasGroup(m, 8) THEN Trim(Group(m, cleaned, 8)) ELSE <<>>,
   field19 |-> IF HasGroup(m, 9) THEN Trim(Group(m, cleaned, 9)) ELSE Undefined]

\* a faulty DashParts: the empty parts are kept, as without .filter(Boolean)
DashPartsWithEmpty(cleaned) ==
  LET noHead == ReplaceFirst(<<Bol, Maybe({"("})>> \o Lit(<<"F","P","L">>)
                               \o <<Star(Space), Maybe({"-"}), Star(Space)>>,
                             cleaned, <<>>)
      noTail == ReplaceFirst(<<Maybe({")"}), Star(Space), Eol>>, noHead, <<>>)
      parts == SplitRe(DashSep, noTail)
  IN  [i \in 1..Len(parts) |-> Trim(parts[i])]

\* the hyphen-separated parts of the lenient fallback
DashParts(cleaned) ==
  LET noHead == ReplaceFirst(<<Bol, Maybe({"("})>> \o Lit(<<"F","P","L">>)
                               \o <<Star(Space), Maybe({"-"}), Star(Space)>>,
                             cleaned, <<>>)
      noTail == ReplaceFirst(<<Maybe({")"}), Star(Space), Eol>>, noHead, <<>>)
      parts == SplitRe(DashSep, noTail)
      trimmed == [i \in 1..Len(parts) |-> Trim(parts[i])]
  IN  SelectSeq(trimmed, LAMBDA p : p # <<>>)

\* dashParts[i] || ""  (i is 0-based)
PartOr(parts, i) == IF i + 1 <= Len(parts) THEN parts[i + 1] ELSE <<>>

\* the result of the lenient fallback for at least 6 parts
LenientParse(cleaned, parts) ==
  [raw |-> cleaned,
   field3 |-> <<"F","P","L">>,
   field7 |-> PartOr(parts, 0),
   field8 |-> PartOr(parts, 1),
   field9 |-> PartOr(parts, 2),
   field10 |-> <<>>,
   field13 |-> PartOr(parts, 3),
   field15 |-> PartOr(parts, 4),
   field16 |-> PartOr(parts, 5),
   field18 |-> PartOr(parts, 6),
   field19 |-> IF Len(parts) >= 8 THEN parts[8] ELSE Undefined]

\* null
Null == [null |-> TRUE]

MinDashParts == 6

\* a faulty parseFPL: the lenient split is accepted with any number of parts
parseFPLAnyParts(raw) ==
  LET cleaned == CleanFpl(raw)
      m == Match(StrictFplRe, cleaned)
  IN  IF m.ok THEN StrictParse(cleaned, m) ELSE LenientParse(cleaned, DashParts(cleaned))

\* a faulty parseFPL: the lenient split is tried before the strict pattern
parseFPLLenientFirst(raw) ==
  LET cleaned == CleanFpl(raw)
      m == Match(StrictFplRe, cleaned)
      parts == DashParts(cleaned)
  IN  IF Len(parts) >= MinDashParts THEN LenientParse(cleaned, parts)
      ELSE IF m.ok THEN StrictParse(cleaned, m)
      ELSE Null

parseFPL(raw) ==
  LET cleaned == CleanFpl(raw)
      m == Match(StrictFplRe, cleaned)
      parts == DashParts(cleaned)
  IN  IF m.ok THEN StrictParse(cleaned, m)
      ELSE IF Len(parts) >= MinDashParts THEN LenientParse(cleaned, parts)
      ELSE Null


(***************************************************************************)
(* Loops.  A while loop of the source is Loop(Step, Done, n, st): Step is  *)
(* its body, Done the negation of its condition, st the variables it       *)
(* updates and n a number of iterations it cannot exceed.  The iterations  *)
(* are run in two halves so that the evaluation stays shallow; the result  *)
(* is that of running them one after the other.                            *)
(***************************************************************************)
RECURSIVE Loop(_, _, _, _)
Loop(Step(_), Done(_), n, st) ==
  IF n = 0 \/ Done(st) THEN st
  ELSE IF n = 1 THEN Step(st)
  ELSE LET half == Loop(Step, Done, n \div 2, st)
       IN  IF Done(half) THEN half ELSE Loop(Step, Done, n - (n \div 2), half)

\* the concatenation of the sequences seqs[lo..hi]
RECURSIVE Flatten(_, _, _)
Flatten(seqs, lo, hi) ==
  IF lo > hi THEN <<>>
  ELSE IF lo = hi THEN seqs[lo]
  ELSE Flatten(seqs, lo, (lo + hi) \div 2) \o Flatten(seqs, (lo + hi) \div 2 + 1, hi)

\* array.sort(cmp) for a comparator that orders by a number: Before(a, b) is
\* cmp(a, b) < 0.  The sort is stable: elements that compare equal keep
\* their order.
StableSort(seq, Before(_, _)) ==
  LET rank(k) == Cardinality({j \in 1..Len(seq) :
                                \/ Before(seq[j], seq[k])
                                \/ (~Before(seq[k], seq[j]) /\ j < k)}) + 1
  IN  [r \in 1..Len(seq) |-> seq[CHOOSE k \in 1..Len(seq) : rank(k) = r]]

(***************************************************************************)
(* Findings (ValidationResult)                                             *)
(* A message is the sequence of the pieces the template literal joins:     *)
(* fixed text as one string, interpolated text character by character.     *)
(***************************************************************************)
Finding(field, severity, message) ==
  [field |-> field, severity |-> severity, message |-> message, detail |-> Undefined]

FindingD(field, severity, message, detail) ==
  [field |-> field, severity |-> severity, message |-> message, detail |-> detail]

\* cond ? <<finding>> : nothing
When(cond, finding) == IF cond THEN <<finding>> ELSE <<>>

(***************************************************************************)
(* Field validators                                                        *)
(***************************************************************************)
validateField7(callsign) ==
  IF callsign = <<>>
  THEN <<Finding("Field 7", "error", <<"Aircraft identification is missing">>)>>
  ELSE LET results ==
             When(Len(callsign) < 2 \/ Len(callsign) > 7,
                  FindingD("Field 7", "error",
                           <<"Callsign \"">> \o callsign \o <<"\" must be 2-7 characters">>,
                           <<"ICAO Doc 4444 requires 2-7 alphanumeric characters">>))
             \o When(~Test(<<Bol, Plus(AlNum), Eol>>, callsign),
                     Finding("Field 7", "error", <<"Callsign must be alphanumeric only">>))
       IN  IF results = <<>>
           THEN <<Finding("Field 7", "success", <<"Aircraft ID: ">> \o callsign)>>
           ELSE results

validateField8(field8) ==
  IF field8 = <<>> \/ Len(field8) < 2
  THEN <<Finding("Field 8", "error", <<"Flight rules and type are missing">>)>>
  ELSE LET rules == <<field8[1]>>
           type == <<field8[2]>>
       IN  <<IF ~Has(FLIGHT_RULES, rules)
             THEN FindingD("Field 8", "error",
                           <<"Invalid flight rules \"">> \o rules \o <<"\"">>,
                           <<"Must be I, V, Y, or Z">>)
             ELSE Finding("Field 8", "success",
                          <<"Rules: ", Entry(FLIGHT_RULES, rules).name>>),
             IF ~Has(FLIGHT_TYPES, type)
             THEN FindingD("Field 8", "error",
                           <<"Invalid flight type \"">> \o type \o <<"\"">>,
                           <<"Must be S, N, G, M, or X">>)
             ELSE Finding("Field 8", "success",
                          <<"Type: ", Entry(FLIGHT_TYPES, type).name>>)>>

\* a faulty TokenStep: the two-character codes are never tried
TokenStepOneCharOnly(table, text, st) ==
  LET oneChar == <<text[st.i + 1]>>
  IN  IF Has(table, oneChar)
      THEN [st EXCEPT !.valid = Append(@, oneChar), !.i = @ + 1]
      ELSE [st EXCEPT !.invalid = Append(@, oneChar), !.i = @ + 1]

\* one pass of the tokenizer loop of validateField10 over the half text
TokenStep(table, text, st) ==
  LET twoChar == Substring(text, st.i, st.i + 2)
      oneChar == <<text[st.i + 1]>>
  IN  IF Has(table, twoChar)
      THEN [st EXCEPT !.valid = Append(@, twoChar), !.i = @ + 2]
      ELSE IF Has(table, oneChar)
      THEN [st EXCEPT !.valid = Append(@, oneChar), !.i = @ + 1]
      ELSE [st EXCEPT !.invalid = Append(@, oneChar), !.i = @ + 1]

\* while (i < text.length) { ... }: the valid and the invalid codes of a half
Tokenize(table, text) ==
  Loop(LAMBDA st : TokenStep(table, text, st),
       LAMBDA st : st.i >= Len(text),
       Len(text),
       [i |-> 0, valid |-> <<>>, invalid |-> <<>>])

\* parts[i] || "" (i is 0-based)
PartOrEmpty(parts, i) == IF i + 1 <= Len(parts) THEN parts[i + 1] ELSE <<>>

validateField10(equipment) ==
  IF equipment = <<>>
  THEN <<Finding("Field 10", "warning", <<"Equipment field is empty">>)>>
  ELSE LET parts == SplitChar(equipment, "/")
           comNav == PartOrEmpty(parts, 0)
           ssr == PartOrEmpty(parts, 1)
           cn == Tokenize(EQUIPMENT_COM_NAV, comNav)
           sr == Tokenize(EQUIPMENT_SSR, ssr)
       IN  (IF comNav = <<"N">>
            THEN <<Finding("Field 10", "info", <<"No COM/NAV equipment">>)>>
            ELSE IF comNav # <<>>
            THEN When(Len(cn.valid) > 0,
                      Finding("Field 10", "success",
                              <<"COM/NAV: ">> \o Join(cn.valid, <<", ">>)))
                 \o When(Len(cn.invalid) > 0,
                         Finding("Field 10", "warning",
                                 <<"Unknown COM/NAV codes: ">> \o Join(cn.invalid, <<", ">>)))
            ELSE <<>>)
           \o
           (IF ssr = <<"N">>
            THEN <<Finding("Field 10", "warning", <<"No surveillance equipment declared">>)>>
            ELSE IF ssr # <<>>
            THEN When(Len(sr.valid) > 0,
                      Finding("Field 10", "success",
                              <<"SSR: ">> \o Join(sr.valid, <<", ">>)))
                 \o When(Len(sr.invalid) > 0,
                         Finding("Field 10", "warning",
                                 <<"Unknown SSR codes: ">> \o Join(sr.invalid, <<", ">>)))
            ELSE <<>>)

WakeLetters == {"L", "M", "H", "J"}

\* /^(\d{0,2})([A-Z0-9]{2,4})\/([LMHJ])(.*)/
Field9Re ==
  <<Bol, Open(1), Cls(Digit, 0, 2), Close(1), Open(2), Cls(AlNum, 2, 4), Close(2),
    Ch("/"), Open(3), One(WakeLetters), Close(3), Open(4), Star(Dot), Close(4)>>

\* /([A-Z0-9]{2,4})\/([LMHJ])(.*)/
Field9AltRe ==
  <<Open(1), Cls(AlNum, 2, 4), Close(1),
    Ch("/"), Open(2), One(WakeLetters), Close(2), Open(3), Star(Dot), Close(3)>>

\* WAKE_CATEGORIES[wake]?.label || wake
WakeLabel(wake) ==
  IF Has(WAKE_CATEGORIES, wake) THEN <<Entry(WAKE_CATEGORIES, wake).label>> ELSE wake

\* the branch of validateField9 for "type/wake-equipment"
validateField9Alt(field9, altMatch) ==
  LET acType == Group(altMatch, field9, 1)
      wake == Group(altMatch, field9, 2)
      equipmentPart == Group(altMatch, field9, 3)
  IN  (IF Has(AIRCRAFT_TYPES, acType)
       THEN <<Finding("Field 9", "success", <<"Type: ", Entry(AIRCRAFT_TYPES, acType).name>>)>>
            \o When(Entry(AIRCRAFT_TYPES, acType).wake # wake,
                    Finding("Field 9", "warning",
                            <<"Wake category \"">> \o wake \o <<"\" may not match ">>
                              \o acType \o <<" (expected ">>
                              \o Entry(AIRCRAFT_TYPES, acType).wake \o <<")">>))
       ELSE <<Finding("Field 9", "info",
                      <<"Aircraft type: ">> \o acType \o <<" (not in common database)">>)>>)
      \o <<Finding("Field 9", "success", <<"Wake category: ">> \o WakeLabel(wake))>>
      \o (IF equipmentPart # <<>> /\ StartsWith(equipmentPart, <<"-">>)
          THEN validateField10(Join(SplitChar(SubstringFrom(equipmentPart, 1), "/"), <<"/">>))
          ELSE <<>>)

validateField9(field9) ==
  IF field9 = <<>>
  THEN <<Finding("Field 9", "error", <<"Number, type, and wake category are missing">>)>>
  ELSE
    LET match == Match(Field9Re, field9)
        altMatch == Match(Field9AltRe, field9)
        num == Group(match, field9, 1)
        acType == Group(match, field9, 2)
        wake == Group(match, field9, 3)
    IN  IF ~match.ok
        THEN IF altMatch.ok
             THEN validateField9Alt(field9, altMatch)
             ELSE <<FindingD("Field 9", "error",
                             <<"Cannot parse type/wake: \"">> \o field9 \o <<"\"">>,
                             <<"Expected format: TYPE/WAKE (e.g., B738/M)">>)>>
        ELSE When(num # <<>> /\ (ParseInt(num) < 1 \/ ParseInt(num) > 99),
                  Finding("Field 9", "error", <<"Invalid number of aircraft: ">> \o num))
             \o <<IF Has(AIRCRAFT_TYPES, acType)
                  THEN Finding("Field 9", "success",
                               <<"Type: ", Entry(AIRCRAFT_TYPES, acType).name>>)
                  ELSE Finding("Field 9", "info",
                               <<"Type: ">> \o acType \o <<" (not in common database)">>),
                  Finding("Field 9", "success",
                          <<"Wake: ", Entry(WAKE_CATEGORIES, wake).label, " (",
                            Entry(WAKE_CATEGORIES, wake).mtow, ")">>)>>

\* /^[A-Z]{4}$/
IcaoRe == <<Bol, Cls(Upper, 4, 4), Eol>>

\* /^\d{4}$/
FourDigitsRe == <<Bol, Cls(Digit, 4, 4), Eol>>

MaxHours == 23

MaxMinutes == 59

\* ${icao}${name ? ` (${name})` : ""}
AirportLabel(icao) ==
  icao \o (IF Has(COMMON_AIRPORTS, icao)
           THEN <<" (", Entry(COMMON_AIRPORTS, icao).name, ")">> ELSE <<>>)

\* a faulty range test: hour 24 is let through
EobtOutOfRangeAfter24(hours, minutes) == hours > MaxHours + 1 \/ minutes > MaxMinutes

\* hours > 23 || minutes > 59
EobtOutOfRange(hours, minutes) == hours > MaxHours \/ minutes > MaxMinutes

validateField13(field13) ==
  IF field13 = <<>> \/ Len(field13) < 8
  THEN <<FindingD("Field 13", "error", <<"Departure aerodrome and EOBT are missing">>,
                  <<"Format: ICAO code (4 chars) + EOBT (4 digits HHMM)">>)>>
  ELSE
    LET depIcao == ToUpperCase(Substring(field13, 0, 4))
        eobt == Substring(field13, 4, 8)
        hours == ParseInt(Substring(eobt, 0, 2))
        minutes == ParseInt(Substring(eobt, 2, 4))
    IN  <<IF ~Test(IcaoRe, depIcao)
          THEN Finding("Field 13", "error",
                       <<"Invalid departure ICAO: \"">> \o depIcao \o <<"\"">>)
          ELSE Finding("Field 13", "success", <<"Departure: ">> \o AirportLabel(depIcao)),
          IF ~Test(FourDigitsRe, eobt)
          THEN FindingD("Field 13", "error", <<"Invalid EOBT: \"">> \o eobt \o <<"\"">>,
                        <<"Must be 4 digits HHMM">>)
          ELSE IF EobtOutOfRange(hours, minutes)
          THEN Finding("Field 13", "error", <<"Invalid EOBT time: ">> \o eobt)
          ELSE Finding("Field 13", "success", <<"EOBT: ">> \o eobt \o <<"Z">>)>>
        \o When(Has(OMAN_AIRPORTS, depIcao),
                Finding("Field 13", "info",
                        <<"Oman CAR-172: FPL must be filed at least 60 minutes before EOBT for IFR flights in Muscat FIR">>))

\* /^([NMK]\d{3,4})(F\d{3}|S\d{4}|A\d{3}|VFR)\s+(.*)/ with, between the
\* first two groups, the items of gap (nothing, or \s*)
SpeedLevelRe(gap) ==
  <<Bol, Open(1), One({"N", "M", "K"}), Cls(Digit, 3, 4), Close(1)>> \o gap \o
  <<Open(2),
    AltGroup(<<<<{"F"}, Digit, Digit, Digit>>, <<{"S"}, Digit, Digit, Digit, Digit>>,
               <<{"A"}, Digit, Digit, Digit>>, LitSets(<<"V", "F", "R">>)>>),
    Close(2), Plus(Space), Open(3), Star(Dot), Close(3)>>

\* /^[A-Z]{1,2}\d{1,4}$/
AirwayRe == <<Bol, Cls(Upper, 1, 2), Cls(Digit, 1, 4), Eol>>

\* n.toLocaleString() for a non-negative integer, digits grouped by three
RECURSIVE ToLocaleString(_)
ToLocaleString(n) ==
  IF n < 1000 THEN NumToStr(n)
  ELSE ToLocaleString(n \div 1000) \o <<",">>
       \o <<NumToStr((n % 1000) \div 100)[1], NumToStr((n % 100) \div 10)[1],
            NumToStr(n % 10)[1]>>

\* (n / 100).toFixed(2)
ToFixed2(n) ==
  NumToStr(n \div 100) \o <<".">> \o NumToStr((n % 100) \div 10) \o NumToStr(n % 10)

\* the findings validateRoute pushes
validateRoute(route) ==
  IF route = <<>> THEN <<>>
  ELSE LET segments == SplitRe(<<Plus(Space)>>, Trim(route))
           hasDCT == \E k \in 1..Len(segments) : segments[k] = <<"D", "C", "T">>
           hasAirway == \E k \in 1..Len(segments) :
                           segments[k] # <<"D", "C", "T">> /\ Test(AirwayRe, segments[k])
       IN  When(hasDCT, Finding("Field 15", "info", <<"Route includes direct (DCT) segments">>))
           \o When(hasAirway, Finding("Field 15", "info", <<"Route includes airway segments">>))
           \o <<Finding("Field 15", "success",
                        <<"Route: ">> \o NumToStr(Len(segments)) \o <<" segments">>)>>

SpeedFindings(speed) ==
  LET n == ParseInt(SubstringFrom(speed, 1))
  IN  IF StartsWith(speed, <<"N">>)
      THEN IF n < 50 \/ n > 999
           THEN <<Finding("Field 15", "warning",
                          <<"Unusual speed: ">> \o speed \o <<" (">> \o NumToStr(n) \o <<" knots)">>)>>
           ELSE <<Finding("Field 15", "success", <<"Speed: ">> \o NumToStr(n) \o <<" knots TAS">>)>>
      ELSE IF StartsWith(speed, <<"M">>)
      THEN <<Finding("Field 15", "success", <<"Speed: Mach ">> \o ToFixed2(n))>>
      ELSE IF StartsWith(speed, <<"K">>)
      THEN <<Finding("Field 15", "success", <<"Speed: ">> \o NumToStr(n) \o <<" km/h">>)>>
      ELSE <<>>

LevelFindings(level) ==
  LET n == ParseInt(SubstringFrom(level, 1))
  IN  IF StartsWith(level, <<"F">>)
      THEN <<Finding("Field 15", "success",
                     <<"Level: FL">> \o NumToStr(n) \o <<" (">> \o ToLocaleString(n * 100) \o <<" ft)">>)>>
           \o When(n > 600,
                   Finding("Field 15", "warning", <<"FL">> \o NumToStr(n) \o <<" is unusually high">>))
      ELSE IF StartsWith(level, <<"A">>)
      THEN <<Finding("Field 15", "success",
                     <<"Altitude: ">> \o ToLocaleString(n * 100) \o <<" ft">>)>>
      ELSE IF StartsWith(level, <<"S">>)
      THEN <<Finding("Field 15", "success", <<"Standard metric: ">> \o level)>>
      ELSE IF level = <<"V", "F", "R">>
      THEN <<Finding("Field 15", "success", <<"Level: VFR">>)>>
      ELSE <<>>

validateField15(field15) ==
  IF field15 = <<>>
  THEN <<Finding("Field 15", "error", <<"Route information is missing">>)>>
  ELSE
    LET speedMatch == Match(SpeedLevelRe(<<>>), field15)
        simpleMatch == Match(SpeedLevelRe(<<Star(Space)>>), field15)
    IN  IF ~speedMatch.ok
        THEN IF simpleMatch.ok
             THEN <<Finding("Field 15", "success", <<"Speed: ">> \o Group(simpleMatch, field15, 1)),
                    Finding("Field 15", "success", <<"Level: ">> \o Group(simpleMatch, field15, 2))>>
                  \o validateRoute(Group(simpleMatch, field15, 3))
             ELSE <<FindingD("Field 15", "warning", <<"Could not parse speed/level prefix">>,
                             <<"Raw: ">> \o Substring(field15, 0, 30) \o <<"...">>)>>
                  \o validateRoute(field15)
        ELSE SpeedFindings(Group(speedMatch, field15, 1))
             \o LevelFindings(Group(speedMatch, field15, 2))
             \o validateRoute(Group(speedMatch, field15, 3))

\* a faulty length test: only an empty Field 16 counts as missing
Field16MissingWhenEmpty(field16) == field16 = <<>>

\* !field16 || field16.length < 8
Field16Missing(field16) == field16 = <<>> \/ Len(field16) < 8

validateField16(field16) ==
  IF Field16Missing(field16)
  THEN <<FindingD("Field 16", "error", <<"Destination and EET are missing">>,
                  <<"Format: ICAO code + 4-digit EET + optional alternates">>)>>
  ELSE
    LET destIcao == ToUpperCase(Substring(field16, 0, 4))
        eet == Substring(field16, 4, 8)
        hours == ParseInt(Substring(eet, 0, 2))
        mins == ParseInt(Substring(eet, 2, 4))
        remaining == Trim(SubstringFrom(field16, 8))
        alternates == IF remaining # <<>> THEN MatchAll(<<Cls(Upper, 4, 4)>>, remaining) ELSE <<>>
    IN  <<IF ~Test(IcaoRe, destIcao)
          THEN Finding("Field 16", "error",
                       <<"Invalid destination ICAO: \"">> \o destIcao \o <<"\"">>)
          ELSE Finding("Field 16", "success", <<"Destination: ">> \o AirportLabel(destIcao)),
          IF ~Test(FourDigitsRe, eet)
          THEN Finding("Field 16", "error", <<"Invalid EET: \"">> \o eet \o <<"\"">>)
          ELSE Finding("Field 16", "success",
                       <<"Total EET: ">> \o NumToStr(hours) \o <<"h ">> \o NumToStr(mins) \o <<"m">>)>>
        \o [k \in 1..Len(alternates) |->
              Finding("Field 16", "success", <<"Alternate: ">> \o AirportLabel(alternates[k]))]

(***************************************************************************)
(* Field 18                                                                *)
(* A ParsedField18 is the sequence of its [key, value] entries in the      *)
(* order Object.entries lists them: the order in which the keys were first *)
(* assigned.                                                               *)
(***************************************************************************)
\* Object.keys(FIELD18_PREFIXES).sort((a, b) => b.length - a.length)
SortedPrefixes ==
  StableSort([k \in 1..Len(FIELD18_PREFIXES) |-> FIELD18_PREFIXES[k].key],
             LAMBDA a, b : Len(a) > Len(b))

\* one pass of the while (true) loop of parseField18
FindStep(text, prefix, st) ==
  LET idx == IndexOf(text, prefix, st.searchFrom)
  IN  IF idx = -1 THEN [st EXCEPT !.done = TRUE]
      ELSE [st EXCEPT !.found = Append(@, [prefix |-> prefix, index |-> idx]),
                      !.searchFrom = idx + Len(prefix)]

\* the positions the loop pushes for one prefix
Occurrences(text, prefix) ==
  Loop(LAMBDA st : FindStep(text, prefix, st),
       LAMBDA st : st.done,
       Len(text) + 1,
       [searchFrom |-> 0, found |-> <<>>, done |-> FALSE]).found

\* prefix.replace("/", "")
DropFirstSlash(prefix) ==
  LET at == IndexOf(prefix, <<"/">>, 0)
  IN  IF at = -1 THEN prefix ELSE Substring(prefix, 0, at) \o SubstringFrom(prefix, at + 1)

\* a faulty Assigned: a key that is assigned again keeps its first value
AssignedOnce(assignments) ==
  LET n == Len(assignments)
      firsts == SelectSeq([i \in 1..n |-> i],
                          LAMBDA i : \A j \in 1..(i - 1) : assignments[j].key # assignments[i].key)
  IN  [k \in 1..Len(firsts) |->
         [key |-> assignments[firsts[k]].key, value |-> assignments[firsts[k]].value]]

\* the object the assignments result[key] = value build, made in order
Assigned(assignments) ==
  LET n == Len(assignments)
      firsts == SelectSeq([i \in 1..n |-> i],
                          LAMBDA i : \A j \in 1..(i - 1) : assignments[j].key # assignments[i].key)
  IN  [k \in 1..Len(firsts) |->
         [key |-> assignments[firsts[k]].key,
          value |-> assignments[SetMax({j \in 1..n :
                                          assignments[j].key = assignments[firsts[k]].key})].value]]

parseField18(text) ==
  IF text = <<>> THEN <<>>
  ELSE
    LET prefixes == SortedPrefixes
        positions == StableSort(Flatten([k \in 1..Len(prefixes) |-> Occurrences(text, prefixes[k])],
                                        1, Len(prefixes)),
                                LAMBDA a, b : a.index < b.index)
        valueStart(i) == positions[i].index + Len(positions[i].prefix)
        valueEnd(i) == IF i + 1 <= Len(positions) THEN positions[i + 1].index ELSE Len(text)
    IN  Assigned([i \in 1..Len(positions) |->
                    [key |-> DropFirstSlash(positions[i].prefix),
                     value |-> Trim(Substring(text, valueStart(i), valueEnd(i)))]])

\* field18[key], undefined when the key is absent
Get(field18, key) ==
  IF \E k \in 1..Len(field18) : field18[k].key = key
  THEN field18[CHOOSE k \in 1..Len(field18) : field18[k].key = key].value
  ELSE Undefined

\* the truth value of an optional string
Truthy(v) == v # Undefined /\ v # <<>>

KeyPBN == <<"P", "B", "N">>

KeyDOF == <<"D", "O", "F">>

KeyPER == <<"P", "E", "R">>

KeyREG == <<"R", "E", "G">>

KeyCOM == <<"C", "O", "M">>

KeyNAV == <<"N", "A", "V">>

KeyDAT == <<"D", "A", "T">>

\* /^\d{6}$/
DofRe == <<Bol, Cls(Digit, 6, 6), Eol>>

\* the findings of the loop over Object.entries(field18)
PrefixFindings(field18) ==
  [k \in 1..Len(field18) |->
     LET prefixKey == field18[k].key \o <<"/">>
     IN  IF Has(FIELD18_PREFIXES, prefixKey)
         THEN Finding("Field 18", "success",
                      <<Entry(FIELD18_PREFIXES, prefixKey).name, ": ">> \o field18[k].value)
         ELSE Finding("Field 18", "warning", <<"Unknown prefix: ">> \o field18[k].key \o <<"/">>)]

\* a faulty PbnCodes: the pattern without the g flag yields the first pair only
PbnCodesFirstOnly(pbnStr) ==
  LET all == MatchAll(<<One(Upper), One(Digit)>>, pbnStr)
  IN  IF all = <<>> THEN <<>> ELSE <<all[1]>>

\* pbnStr.match(/[A-Z]\d/g) || []
PbnCodes(pbnStr) == MatchAll(<<One(Upper), One(Digit)>>, pbnStr)

PbnFindings(field18) ==
  IF ~Truthy(Get(field18, KeyPBN)) THEN <<>>
  ELSE LET codes == PbnCodes(Trim(Get(field18, KeyPBN)))
           invalid == SelectSeq(codes, LAMBDA c : ~Has(PBN_CODES, c))
           valid == SelectSeq(codes, LAMBDA c : Has(PBN_CODES, c))
       IN  When(Len(invalid) > 0,
                Finding("Field 18", "warning",
                        <<"Unknown PBN codes: ">> \o Join(invalid, <<", ">>)))
           \o When(Len(valid) > 0,
                   Finding("Field 18", "info",
                           <<"PBN capabilities: ">>
                             \o Join([k \in 1..Len(valid) |->
                                        valid[k] \o <<" (", Entry(PBN_CODES, valid[k]).name, ")">>],
                                     <<", ">>)))

\* field8?.[0] || ""
RulesOf(field8) == IF field8 # <<>> THEN <<field8[1]>> ELSE <<>>

CrossChecks(field18, field8, field10) ==
  When(RulesOf(field8) = <<"I">> /\ SplitChar(field10, "/")[1] = <<"N">>,
       Finding("Cross-check", "error",
               <<"IFR flight rules but no COM/NAV equipment (Field 10 = N)">>))
  \o When(Includes(field10, <<"R">>) /\ ~Truthy(Get(field18, KeyPBN)),
          FindingD("Cross-check", "error",
                   <<"Field 10 includes R (PBN approved) but Field 18 has no PBN/ entry">>,
                   <<"ICAO Doc 4444: If R is filed in Field 10, PBN/ must appear in Field 18">>))
  \o When(/\ Includes(field10, <<"Z">>)
          /\ ~Truthy(Get(field18, KeyCOM))
          /\ ~Truthy(Get(field18, KeyNAV))
          /\ ~Truthy(Get(field18, KeyDAT)),
          FindingD("Cross-check", "error",
                   <<"Field 10 includes Z but Field 18 has no COM/, NAV/, or DAT/">>,
                   <<"ICAO Doc 4444: Z requires specification in Field 18">>))

validateField18Parsed(field18, field8, field10) ==
  IF Len(field18) = 0
  THEN <<Finding("Field 18", "warning", <<"Field 18 is empty">>)>>
  ELSE PrefixFindings(field18)
       \o PbnFindings(field18)
       \o When(Truthy(Get(field18, KeyDOF)) /\ ~Test(DofRe, Get(field18, KeyDOF)),
               FindingD("Field 18", "error",
                        <<"Invalid DOF format: \"">> \o Get(field18, KeyDOF) \o <<"\"">>,
                        <<"Must be YYMMDD (e.g., 260215)">>))
       \o When(Truthy(Get(field18, KeyPER)) /\ ~Has(PERFORMANCE_CATEGORIES, Get(field18, KeyPER)),
               FindingD("Field 18", "error",
                        <<"Invalid performance category: \"">> \o Get(field18, KeyPER) \o <<"\"">>,
                        <<"Must be A, B, C, D, or E">>))
       \o CrossChecks(field18, field8, field10)
       \o When(~Truthy(Get(field18, KeyREG)),
               Finding("Field 18", "warning",
                       <<"REG/ (registration) is recommended for Oman FIR operations">>))
       \o When(~Truthy(Get(field18, KeyDOF)),
               Finding("Field 18", "warning", <<"DOF/ (date of flight) is recommended">>))
       \o When(RulesOf(field8) = <<"I">> /\ ~Truthy(Get(field18, KeyPBN)),
               Finding("Field 18", "warning",
                       <<"Oman CAR-175: PBN/ is recommended for IFR flights in Muscat FIR">>))

(***************************************************************************)
(* validateFPL and validateField18Only                                     *)
(***************************************************************************)
\* results.filter((r) => r.severity === severity).length
Count(results, severity) == Len(SelectSeq(results, LAMBDA r : r.severity = severity))

\* a faulty Summary: the counts leave out the last finding, as if they were
\* taken before the CADAS readiness finding was pushed
SummaryBeforeVerdict(results) ==
  LET before == SubSeq(results, 1, Len(results) - 1)
  IN  [errors |-> Count(before, "error"), warnings |-> Count(before, "warning"),
       info |-> Count(before, "info"), success |-> Count(before, "success")]

Summary(results) ==
  [errors |-> Count(results, "error"), warnings |-> Count(results, "warning"),
   info |-> Count(results, "info"), success |-> Count(results, "success")]

FormatError ==
  FindingD("Format", "error", <<"Could not parse FPL message">>,
           <<"Expected format: (FPL-CALLSIGN-RULESTYPE-EQUIPMENT-DEPARTURE-ROUTE-DESTINATION-OTHER INFO)">>)

\* a faulty CadasFinding: the message counts the readiness finding itself
\* among the errors it reports
CadasFindingCountingItself(errors) ==
  IF errors = 0
  THEN Finding("CADAS-ATS", "success", <<"Flight plan appears ready for CADAS-ATS entry">>)
  ELSE Finding("CADAS-ATS", "error",
               NumToStr(errors + 1) \o <<" error(s) must be resolved before filing in CADAS-ATS">>)

\* the CADAS readiness finding for a list with that many errors
CadasFinding(errors) ==
  IF errors = 0
  THEN Finding("CADAS-ATS", "success", <<"Flight plan appears ready for CADAS-ATS entry">>)
  ELSE Finding("CADAS-ATS", "error",
               NumToStr(errors) \o <<" error(s) must be resolved before filing in CADAS-ATS">>)

\* parsed.field10 || parsed.field9
Field10Arg(parsed) == IF parsed.field10 # <<>> THEN parsed.field10 ELSE parsed.field9

\* the findings of validateFPL before the CADAS readiness finding
FieldFindings(parsed) ==
  <<Finding("Format", "success", <<"FPL message parsed successfully">>)>>
  \o validateField7(parsed.field7)
  \o validateField8(parsed.field8)
  \o validateField9(parsed.field9)
  \o validateField13(parsed.field13)
  \o validateField15(parsed.field15)
  \o validateField16(parsed.field16)
  \o validateField18Parsed(parseField18(parsed.field18), parsed.field8, Field10Arg(parsed))

validateFPL(raw) ==
  LET parsed == parseFPL(raw)
      results == FieldFindings(parsed)
      all == Append(results, CadasFinding(Count(results, "error")))
  IN  IF parsed = Null
      THEN [parsed |-> Null, field18Parsed |-> <<>>, results |-> <<FormatError>>,
            summary |-> [errors |-> 1, warnings |-> 0, info |-> 0, success |-> 0]]
      ELSE [parsed |-> parsed, field18Parsed |-> parseField18(parsed.field18),
            results |-> all, summary |-> Summary(all)]

\* a faulty validateField18Only: IFR rules and no equipment stand in for the
\* absent Field 8 and Field 10
validateField18OnlyAsIfr(text) ==
  validateField18Parsed(parseField18(text), <<"I">>, <<"N">>)

validateField18Only(text) == validateField18Parsed(parseField18(text), <<>>, <<>>)

(***************************************************************************)
(* NOTAM decoder (notam-parser)                                            *)
(***************************************************************************)
\* ABBREVIATIONS as Object.entries lists it: each key once, at the place of
\* its first occurrence in the object literal (BTN and TDZ occur twice, with
\* the same expansion)
ABBREVIATIONS ==
  <<
    [key |-> <<"A","D">>,
     full |-> <<"A","e","r","o","d","r","o","m","e">>],
    [key |-> <<"A","E","R","O","D","R","O","M","E">>,
     full |-> <<"A","e","r","o","d","r","o","m","e">>],
    [key |-> <<"R","W","Y">>,
     full |-> <<"R","u","n","w","a","y">>],
    [key |-> <<"T","W","Y">>,
     full |-> <<"T","a","x","i","w","a","y">>],
    [key |-> <<"A","P","R","O","N">>,
     full |-> <<"A","p","r","o","n">>],
    [key |-> <<"A","P","N">>,
     full |-> <<"A","p","r","o","n">>],
    [key |-> <<"T","H","R">>,
     full |-> <<"T","h","r","e","s","h","o","l","d">>],
    [key |-> <<"T","D","Z">>,
     full |-> <<"T","o","u","c","h","d","o","w","n"," ","Z","o","n","e">>],
    [key |-> <<"D","T","H","R">>,
     full |-> <<"D","i","s","p","l","a","c","e","d"," ","T","h","r","e","s","h","o","l","d">>],
    [key |-> <<"S","F","C">>,
     full |-> <<"S","u","r","f","a","c","e">>],
    [key |-> <<"G","N","D">>,
     full |-> <<"G","r","o","u","n","d">>],
    [key |-> <<"A","C","F","T">>,
     full |-> <<"A","i","r","c","r","a","f","t">>],
    [key |-> <<"A","P">>,
     full |-> <<"A","i","r","p","o","r","t">>],
    [key |-> <<"H","P">>,
     full |-> <<"H","e","l","i","p","o","r","t">>],
    [key |-> <<"C","L","S","D">>,
     full |-> <<"C","l","o","s","e","d">>],
    [key |-> <<"O","P","N">>,
     full |-> <<"O","p","e","n">>],
    [key |-> <<"O","P","E","N">>,
     full |-> <<"O","p","e","n">>],
    [key |-> <<"A","V","B","L">>,
     full |-> <<"A","v","a","i","l","a","b","l","e">>],
    [key |-> <<"N","O","T"," ","A","V","B","L">>,
     full |-> <<"N","o","t"," ","A","v","a","i","l","a","b","l","e">>],
    [key |-> <<"U","/","S">>,
     full |-> <<"U","n","s","e","r","v","i","c","e","a","b","l","e">>],
    [key |-> <<"U","N","S","E","R","V","I","C","E","A","B","L","E">>,
     full |-> <<"U","n","s","e","r","v","i","c","e","a","b","l","e">>],
    [key |-> <<"S","K","E","D">>,
     full |-> <<"S","c","h","e","d","u","l","e","d">>],
    [key |-> <<"U","N","S","K","E","D">>,
     full |-> <<"U","n","s","c","h","e","d","u","l","e","d">>],
    [key |-> <<"W","I","P">>,
     full |-> <<"W","o","r","k"," ","i","n"," ","P","r","o","g","r","e","s","s">>],
    [key |-> <<"M","A","I","N","T">>,
     full |-> <<"M","a","i","n","t","e","n","a","n","c","e">>],
    [key |-> <<"C","O","N","S","T","R">>,
     full |-> <<"C","o","n","s","t","r","u","c","t","i","o","n">>],
    [key |-> <<"R","E","P","A","I","R">>,
     full |-> <<"R","e","p","a","i","r">>],
    [key |-> <<"I","N","S","P">>,
     full |-> <<"I","n","s","p","e","c","t","i","o","n">>],
    [key |-> <<"I","N","S","P","E","C","T","I","O","N">>,
     full |-> <<"I","n","s","p","e","c","t","i","o","n">>],
    [key |-> <<"O","P","E","R">>,
     full |-> <<"O","p","e","r","a","t","i","o","n","a","l">>],
    [key |-> <<"O","P","S">>,
     full |-> <<"O","p","e","r","a","t","i","o","n","s">>],
    [key |-> <<"P","R","O","C">>,
     full |-> <<"P","r","o","c","e","d","u","r","e">>],
    [key |-> <<"D","U","E">>,
     full |-> <<"D","u","e"," ","t","o">>],
    [key |-> <<"D","U","E"," ","T","O">>,
     full |-> <<"D","u","e"," ","t","o">>],
    [key |-> <<"H","R">>,
     full |-> <<"H","o","u","r","s">>],
    [key |-> <<"H","R","S">>,
     full |-> <<"H","o","u","r","s">>],
    [key |-> <<"H","2","4">>,
     full |-> <<"2","4"," ","H","o","u","r","s"," ","/"," ","C","o","n","t","i","n","u","o","u","s">>],
    [key |-> <<"D","A","I","L","Y">>,
     full |-> <<"D","a","i","l","y">>],
    [key |-> <<"P","E","R","M">>,
     full |-> <<"P","e","r","m","a","n","e","n","t">>],
    [key |-> <<"T","E","M","P","O">>,
     full |-> <<"T","e","m","p","o","r","a","r","y">>],
    [key |-> <<"T","I","L">>,
     full |-> <<"U","n","t","i","l">>],
    [key |-> <<"U","F","N">>,
     full |-> <<"U","n","t","i","l"," ","F","u","r","t","h","e","r"," ","N","o","t","i","c","e">>],
    [key |-> <<"W","E","F">>,
     full |-> <<"W","i","t","h"," ","E","f","f","e","c","t"," ","F","r","o","m">>],
    [key |-> <<"B","T","N">>,
     full |-> <<"B","e","t","w","e","e","n">>],
    [key |-> <<"F","M">>,
     full |-> <<"F","r","o","m">>],
    [key |-> <<"E","S","T">>,
     full |-> <<"E","s","t","i","m","a","t","e","d">>],
    [key |-> <<"S","R">>,
     full |-> <<"S","u","n","r","i","s","e">>],
    [key |-> <<"S","S">>,
     full |-> <<"S","u","n","s","e","t">>],
    [key |-> <<"L","G","T">>,
     full |-> <<"L","i","g","h","t","i","n","g">>],
    [key |-> <<"L","G","T","D">>,
     full |-> <<"L","i","g","h","t","e","d">>],
    [key |-> <<"U","N","L","G","T","D">>,
     full |-> <<"U","n","l","i","g","h","t","e","d">>],
    [key |-> <<"A","L","S">>,
     full |-> <<"A","p","p","r","o","a","c","h"," ","L","i","g","h","t","i","n","g"," ","S","y","s","t","e","m">>],
    [key |-> <<"P","A","P","I">>,
     full |-> <<"P","A","P","I">>],
    [key |-> <<"V","A","S","I">>,
     full |-> <<"V","A","S","I">>],
    [key |-> <<"A","B","N">>,
     full |-> <<"A","e","r","o","d","r","o","m","e"," ","B","e","a","c","o","n">>],
    [key |-> <<"R","E","I","L">>,
     full |-> <<"R","u","n","w","a","y"," ","E","n","d"," ","I","d","e","n","t","i","f","i","e","r"," ","L","i","g","h","t","s">>],
    [key |-> <<"C","L">>,
     full |-> <<"C","e","n","t","r","e","l","i","n","e">>],
    [key |-> <<"N","A","V">>,
     full |-> <<"N","a","v","i","g","a","t","i","o","n">>],
    [key |-> <<"N","A","V","A","I","D">>,
     full |-> <<"N","a","v","i","g","a","t","i","o","n"," ","A","i","d">>],
    [key |-> <<"I","L","S">>,
     full |-> <<"I","L","S"," ","(","I","n","s","t","r","u","m","e","n","t"," ","L","a","n","d","i","n","g"," ","S","y","s","t","e","m",")">>],
    [key |-> <<"I","L","S","/","D","M","E">>,
     full |-> <<"I","L","S"," ","w","i","t","h"," ","D","M","E">>],
    [key |-> <<"V","O","R">>,
     full |-> <<"V","O","R">>],
    [key |-> <<"V","O","R","/","D","M","E">>,
     full |-> <<"V","O","R"," ","w","i","t","h"," ","D","M","E">>],
    [key |-> <<"N","D","B">>,
     full |-> <<"N","D","B">>],
    [key |-> <<"D","M","E">>,
     full |-> <<"D","M","E"," ","(","D","i","s","t","a","n","c","e"," ","M","e","a","s","u","r","i","n","g"," ","E","q","u","i","p","m","e","n","t",")">>],
    [key |-> <<"G","P">>,
     full |-> <<"G","l","i","d","e"," ","P","a","t","h">>],
    [key |-> <<"L","O","C">>,
     full |-> <<"L","o","c","a","l","i","z","e","r">>],
    [key |-> <<"T","A","C","A","N">>,
     full |-> <<"T","A","C","A","N">>],
    [key |-> <<"G","N","S","S">>,
     full |-> <<"G","N","S","S">>],
    [key |-> <<"R","N","A","V">>,
     full |-> <<"A","r","e","a"," ","N","a","v","i","g","a","t","i","o","n">>],
    [key |-> <<"R","N","P">>,
     full |-> <<"R","e","q","u","i","r","e","d"," ","N","a","v","i","g","a","t","i","o","n"," ","P","e","r","f","o","r","m","a","n","c","e">>],
    [key |-> <<"P","B","N">>,
     full |-> <<"P","e","r","f","o","r","m","a","n","c","e"," ","B","a","s","e","d"," ","N","a","v","i","g","a","t","i","o","n">>],
    [key |-> <<"C","O","M">>,
     full |-> <<"C","o","m","m","u","n","i","c","a","t","i","o","n">>],
    [key |-> <<"F","R","E","Q">>,
     full |-> <<"F","r","e","q","u","e","n","c","y">>],
    [key |-> <<"R","T","F">>,
     full |-> <<"R","a","d","i","o","t","e","l","e","p","h","o","n","y">>],
    [key |-> <<"V","H","F">>,
     full |-> <<"V","H","F">>],
    [key |-> <<"U","H","F">>,
     full |-> <<"U","H","F">>],
    [key |-> <<"H","F">>,
     full |-> <<"H","F">>],
    [key |-> <<"A","T","I","S">>,
     full |-> <<"A","T","I","S">>],
    [key |-> <<"V","O","L","M","E","T">>,
     full |-> <<"V","O","L","M","E","T">>],
    [key |-> <<"A","C","A","R","S">>,
     full |-> <<"A","C","A","R","S">>],
    [key |-> <<"C","P","D","L","C">>,
     full |-> <<"C","P","D","L","C">>],
    [key |-> <<"S","E","L","C","A","L">>,
     full |-> <<"S","E","L","C","A","L">>],
    [key |-> <<"S","A","T","C","O","M">>,
     full |-> <<"S","a","t","e","l","l","i","t","e"," ","C","o","m","m","u","n","i","c","a","t","i","o","n">>],
    [key |-> <<"C","T","A","F">>,
     full |-> <<"C","o","m","m","o","n"," ","T","r","a","f","f","i","c"," ","A","d","v","i","s","o","r","y"," ","F","r","e","q","u","e","n","c","y">>],
    [key |-> <<"O","B","S","T">>,
     full |-> <<"O","b","s","t","a","c","l","e">>],
    [key |-> <<"C","R","A","N","E">>,
     full |-> <<"C","r","a","n","e">>],
    [key |-> <<"B","L","D","G">>,
     full |-> <<"B","u","i","l","d","i","n","g">>],
    [key |-> <<"A","N","T">>,
     full |-> <<"A","n","t","e","n","n","a">>],
    [key |-> <<"T","O","W","E","R">>,
     full |-> <<"T","o","w","e","r">>],
    [key |-> <<"P","O","L","E">>,
     full |-> <<"P","o","l","e">>],
    [key |-> <<"S","T","A","C","K">>,
     full |-> <<"C","h","i","m","n","e","y","/","S","t","a","c","k">>],
    [key |-> <<"M","A","S","T">>,
     full |-> <<"M","a","s","t">>],
    [key |-> <<"E","L","E","V">>,
     full |-> <<"E","l","e","v","a","t","i","o","n">>],
    [key |-> <<"H","G","T">>,
     full |-> <<"H","e","i","g","h","t">>],
    [key |-> <<"A","G","L">>,
     full |-> <<"A","b","o","v","e"," ","G","r","o","u","n","d"," ","L","e","v","e","l">>],
    [key |-> <<"A","M","S","L">>,
     full |-> <<"A","b","o","v","e"," ","M","e","a","n"," ","S","e","a"," ","L","e","v","e","l">>],
    [key |-> <<"C","T","N">>,
     full |-> <<"C","a","u","t","i","o","n">>],
    [key |-> <<"A","D","Z">>,
     full |-> <<"A","d","v","i","s","e">>],
    [key |-> <<"R","E","Q">>,
     full |-> <<"R","e","q","u","i","r","e","d">>],
    [key |-> <<"A","U","T","H">>,
     full |-> <<"A","u","t","h","o","r","i","z","e","d">>],
    [key |-> <<"P","R","O","H","I","B","I","T","E","D">>,
     full |-> <<"P","r","o","h","i","b","i","t","e","d">>],
    [key |-> <<"P","R","O","H">>,
     full |-> <<"P","r","o","h","i","b","i","t","e","d">>],
    [key |-> <<"R","E","S","T","R","I","C","T","E","D">>,
     full |-> <<"R","e","s","t","r","i","c","t","e","d">>],
    [key |-> <<"R","S","T","R">>,
     full |-> <<"R","e","s","t","r","i","c","t","e","d">>],
    [key |-> <<"D","A","N","G","E","R">>,
     full |-> <<"D","a","n","g","e","r">>],
    [key |-> <<"H","A","Z">>,
     full |-> <<"H","a","z","a","r","d">>],
    [key |-> <<"B","I","R","D">>,
     full |-> <<"B","i","r","d">>],
    [key |-> <<"W","I","L","D","L","I","F","E">>,
     full |-> <<"W","i","l","d","l","i","f","e">>],
    [key |-> <<"F","O","D">>,
     full |-> <<"F","o","r","e","i","g","n"," ","O","b","j","e","c","t"," ","D","e","b","r","i","s">>],
    [key |-> <<"C","T","A">>,
     full |-> <<"C","o","n","t","r","o","l"," ","A","r","e","a">>],
    [key |-> <<"T","M","A">>,
     full |-> <<"T","e","r","m","i","n","a","l"," ","C","o","n","t","r","o","l"," ","A","r","e","a">>],
    [key |-> <<"C","T","R">>,
     full |-> <<"C","o","n","t","r","o","l"," ","Z","o","n","e">>],
    [key |-> <<"F","I","R">>,
     full |-> <<"F","l","i","g","h","t"," ","I","n","f","o","r","m","a","t","i","o","n"," ","R","e","g","i","o","n">>],
    [key |-> <<"U","I","R">>,
     full |-> <<"U","p","p","e","r"," ","I","n","f","o","r","m","a","t","i","o","n"," ","R","e","g","i","o","n">>],
    [key |-> <<"U","T","A">>,
     full |-> <<"U","p","p","e","r"," ","C","o","n","t","r","o","l"," ","A","r","e","a">>],
    [key |-> <<"O","C","A">>,
     full |-> <<"O","c","e","a","n","i","c"," ","C","o","n","t","r","o","l"," ","A","r","e","a">>],
    [key |-> <<"A","T","Z">>,
     full |-> <<"A","e","r","o","d","r","o","m","e"," ","T","r","a","f","f","i","c"," ","Z","o","n","e">>],
    [key |-> <<"A","D","I","Z">>,
     full |-> <<"A","i","r"," ","D","e","f","e","n","s","e"," ","I","d","e","n","t","i","f","i","c","a","t","i","o","n"," ","Z","o","n","e">>],
    [key |-> <<"P">>,
     full |-> <<"P","r","o","h","i","b","i","t","e","d"," ","A","r","e","a">>],
    [key |-> <<"R">>,
     full |-> <<"R","e","s","t","r","i","c","t","e","d"," ","A","r","e","a">>],
    [key |-> <<"D">>,
     full |-> <<"D","a","n","g","e","r"," ","A","r","e","a">>],
    [key |-> <<"T","R","A">>,
     full |-> <<"T","e","m","p","o","r","a","r","y"," ","R","e","s","e","r","v","e","d"," ","A","r","e","a">>],
    [key |-> <<"T","S","A">>,
     full |-> <<"T","e","m","p","o","r","a","r","y"," ","S","e","g","r","e","g","a","t","e","d"," ","A","r","e","a">>],
    [key |-> <<"A","T","S">>,
     full |-> <<"A","i","r"," ","T","r","a","f","f","i","c"," ","S","e","r","v","i","c","e","s">>],
    [key |-> <<"A","T","C">>,
     full |-> <<"A","i","r"," ","T","r","a","f","f","i","c"," ","C","o","n","t","r","o","l">>],
    [key |-> <<"T","W","R">>,
     full |-> <<"T","o","w","e","r">>],
    [key |-> <<"A","P","P">>,
     full |-> <<"A","p","p","r","o","a","c","h">>],
    [key |-> <<"A","C","C">>,
     full |-> <<"A","r","e","a"," ","C","o","n","t","r","o","l"," ","C","e","n","t","r","e">>],
    [key |-> <<"F","I","S">>,
     full |-> <<"F","l","i","g","h","t"," ","I","n","f","o","r","m","a","t","i","o","n"," ","S","e","r","v","i","c","e">>],
    [key |-> <<"A","F","I","S">>,
     full |-> <<"A","e","r","o","d","r","o","m","e"," ","F","l","i","g","h","t"," ","I","n","f","o","r","m","a","t","i","o","n"," ","S","e","r","v","i","c","e">>],
    [key |-> <<"A","R","R">>,
     full |-> <<"A","r","r","i","v","a","l">>],
    [key |-> <<"D","E","P">>,
     full |-> <<"D","e","p","a","r","t","u","r","e">>],
    [key |-> <<"A","P","C","H">>,
     full |-> <<"A","p","p","r","o","a","c","h">>],
    [key |-> <<"S","I","D">>,
     full |-> <<"S","t","a","n","d","a","r","d"," ","I","n","s","t","r","u","m","e","n","t"," ","D","e","p","a","r","t","u","r","e">>],
    [key |-> <<"S","T","A","R">>,
     full |-> <<"S","t","a","n","d","a","r","d"," ","A","r","r","i","v","a","l"," ","R","o","u","t","e">>],
    [key |-> <<"I","A","P">>,
     full |-> <<"I","n","s","t","r","u","m","e","n","t"," ","A","p","p","r","o","a","c","h"," ","P","r","o","c","e","d","u","r","e">>],
    [key |-> <<"M","A","P">>,
     full |-> <<"M","i","s","s","e","d"," ","A","p","p","r","o","a","c","h"," ","P","r","o","c","e","d","u","r","e">>],
    [key |-> <<"H","O","L","D">>,
     full |-> <<"H","o","l","d","i","n","g">>],
    [key |-> <<"R","V","S","M">>,
     full |-> <<"R","V","S","M">>],
    [key |-> <<"M","E","T">>,
     full |-> <<"M","e","t","e","o","r","o","l","o","g","i","c","a","l">>],
    [key |-> <<"M","E","T","A","R">>,
     full |-> <<"M","E","T","A","R">>],
    [key |-> <<"T","A","F">>,
     full |-> <<"T","A","F">>],
    [key |-> <<"S","I","G","M","E","T">>,
     full |-> <<"S","i","g","n","i","f","i","c","a","n","t"," ","M","e","t","e","o","r","o","l","o","g","i","c","a","l"," ","I","n","f","o","r","m","a","t","i","o","n">>],
    [key |-> <<"A","I","R","M","E","T">>,
     full |-> <<"A","i","r","m","e","n"," ","M","e","t","e","o","r","o","l","o","g","i","c","a","l"," ","I","n","f","o","r","m","a","t","i","o","n">>],
    [key |-> <<"C","B">>,
     full |-> <<"C","u","m","u","l","o","n","i","m","b","u","s">>],
    [key |-> <<"T","S">>,
     full |-> <<"T","h","u","n","d","e","r","s","t","o","r","m">>],
    [key |-> <<"F","G">>,
     full |-> <<"F","o","g">>],
    [key |-> <<"I","C","E">>,
     full |-> <<"I","c","e","/","I","c","i","n","g">>],
    [key |-> <<"T","U","R","B">>,
     full |-> <<"T","u","r","b","u","l","e","n","c","e">>],
    [key |-> <<"W","I","N","D">>,
     full |-> <<"W","i","n","d">>],
    [key |-> <<"V","I","S">>,
     full |-> <<"V","i","s","i","b","i","l","i","t","y">>],
    [key |-> <<"R","V","R">>,
     full |-> <<"R","u","n","w","a","y"," ","V","i","s","u","a","l"," ","R","a","n","g","e">>],
    [key |-> <<"N","O","T","A","M">>,
     full |-> <<"N","o","t","i","c","e"," ","t","o"," ","A","i","r"," ","M","i","s","s","i","o","n","s">>],
    [key |-> <<"N","O","T","A","M","N">>,
     full |-> <<"N","e","w"," ","N","O","T","A","M">>],
    [key |-> <<"N","O","T","A","M","R">>,
     full |-> <<"R","e","p","l","a","c","e","m","e","n","t"," ","N","O","T","A","M">>],
    [key |-> <<"N","O","T","A","M","C">>,
     full |-> <<"C","a","n","c","e","l","l","a","t","i","o","n"," ","N","O","T","A","M">>],
    [key |-> <<"A","S","H","T","A","M">>,
     full |-> <<"V","o","l","c","a","n","i","c"," ","A","s","h"," ","N","O","T","A","M">>],
    [key |-> <<"S","N","O","W","T","A","M">>,
     full |-> <<"S","n","o","w"," ","C","o","n","d","i","t","i","o","n"," ","N","O","T","A","M">>],
    [key |-> <<"B","I","R","D","T","A","M">>,
     full |-> <<"B","i","r","d"," ","A","c","t","i","v","i","t","y"," ","N","O","T","A","M">>],
    [key |-> <<"A","S","P","H">>,
     full |-> <<"A","s","p","h","a","l","t">>],
    [key |-> <<"C","O","N","C">>,
     full |-> <<"C","o","n","c","r","e","t","e">>],
    [key |-> <<"G","R","S">>,
     full |-> <<"G","r","a","s","s">>],
    [key |-> <<"W","E","T">>,
     full |-> <<"W","e","t">>],
    [key |-> <<"D","R","Y">>,
     full |-> <<"D","r","y">>],
    [key |-> <<"S","N","O","W">>,
     full |-> <<"S","n","o","w"," ","c","o","v","e","r","e","d">>],
    [key |-> <<"I","C","Y">>,
     full |-> <<"I","c","y">>],
    [key |-> <<"G","R","V","L">>,
     full |-> <<"G","r","a","v","e","l">>],
    [key |-> <<"B","R","K","G">>,
     full |-> <<"B","r","a","k","i","n","g">>],
    [key |-> <<"N">>,
     full |-> <<"N","o","r","t","h">>],
    [key |-> <<"S">>,
     full |-> <<"S","o","u","t","h">>],
    [key |-> <<"E">>,
     full |-> <<"E","a","s","t">>],
    [key |-> <<"W">>,
     full |-> <<"W","e","s","t">>],
    [key |-> <<"N","E">>,
     full |-> <<"N","o","r","t","h","e","a","s","t">>],
    [key |-> <<"N","W">>,
     full |-> <<"N","o","r","t","h","w","e","s","t">>],
    [key |-> <<"S","E">>,
     full |-> <<"S","o","u","t","h","e","a","s","t">>],
    [key |-> <<"S","W">>,
     full |-> <<"S","o","u","t","h","w","e","s","t">>],
    [key |-> <<"F","T">>,
     full |-> <<"F","e","e","t">>],
    [key |-> <<"M">>,
     full |-> <<"M","e","t","r","e","s">>],
    [key |-> <<"K","T">>,
     full |-> <<"K","n","o","t","s">>],
    [key |-> <<"K","M">>,
     full |-> <<"K","i","l","o","m","e","t","r","e","s">>],
    [key |-> <<"N","M">>,
     full |-> <<"N","a","u","t","i","c","a","l"," ","M","i","l","e","s">>],
    [key |-> <<"F","L">>,
     full |-> <<"F","l","i","g","h","t"," ","L","e","v","e","l">>],
    [key |-> <<"Q","N","H">>,
     full |-> <<"Q","N","H"," ","(","A","l","t","i","m","e","t","e","r"," ","S","e","t","t","i","n","g",")">>],
    [key |-> <<"T","F","C">>,
     full |-> <<"T","r","a","f","f","i","c">>],
    [key |-> <<"P","A","X">>,
     full |-> <<"P","a","s","s","e","n","g","e","r","s">>],
    [key |-> <<"C","R","W">>,
     full |-> <<"C","r","e","w">>],
    [key |-> <<"E","M","E","R","G">>,
     full |-> <<"E","m","e","r","g","e","n","c","y">>],
    [key |-> <<"S","A","R">>,
     full |-> <<"S","e","a","r","c","h"," ","a","n","d"," ","R","e","s","c","u","e">>],
    [key |-> <<"M","I","L">>,
     full |-> <<"M","i","l","i","t","a","r","y">>],
    [key |-> <<"C","I","V">>,
     full |-> <<"C","i","v","i","l">>],
    [key |-> <<"P","P","R">>,
     full |-> <<"P","r","i","o","r"," ","P","e","r","m","i","s","s","i","o","n"," ","R","e","q","u","i","r","e","d">>],
    [key |-> <<"P","N">>,
     full |-> <<"P","r","i","o","r"," ","N","o","t","i","c","e">>],
    [key |-> <<"A","B","V">>,
     full |-> <<"A","b","o","v","e">>],
    [key |-> <<"B","L","W">>,
     full |-> <<"B","e","l","o","w">>],
    [key |-> <<"V","I","C">>,
     full |-> <<"V","i","c","i","n","i","t","y">>],
    [key |-> <<"B","C","S","T">>,
     full |-> <<"B","r","o","a","d","c","a","s","t">>],
    [key |-> <<"M","O","N">>,
     full |-> <<"M","o","n","i","t","o","r">>],
    [key |-> <<"O","A","T">>,
     full |-> <<"O","u","t","s","i","d","e"," ","A","i","r"," ","T","e","m","p","e","r","a","t","u","r","e">>],
    [key |-> <<"M","A","X">>,
     full |-> <<"M","a","x","i","m","u","m">>],
    [key |-> <<"M","I","N">>,
     full |-> <<"M","i","n","i","m","u","m">>],
    [key |-> <<"P","S","N">>,
     full |-> <<"P","o","s","i","t","i","o","n">>],
    [key |-> <<"C","O","O","R","D">>,
     full |-> <<"C","o","o","r","d","i","n","a","t","e","s">>],
    [key |-> <<"A","C","A","S">>,
     full |-> <<"A","i","r","b","o","r","n","e"," ","C","o","l","l","i","s","i","o","n"," ","A","v","o","i","d","a","n","c","e"," ","S","y","s","t","e","m">>],
    [key |-> <<"T","C","A","S">>,
     full |-> <<"T","r","a","f","f","i","c"," ","C","o","l","l","i","s","i","o","n"," ","A","v","o","i","d","a","n","c","e"," ","S","y","s","t","e","m">>],
    [key |-> <<"E","F","F">>,
     full |-> <<"E","f","f","e","c","t","i","v","e">>],
    [key |-> <<"P","O","S","S">>,
     full |-> <<"P","o","s","s","i","b","l","e">>],
    [key |-> <<"E","X","P","T">>,
     full |-> <<"E","x","p","e","c","t">>]
  >>

\* a faulty SortedAbbreviations: the entries are left in the order of the table
UnsortedAbbreviations == ABBREVIATIONS

\* Object.entries(ABBREVIATIONS).sort((a, b) => b[0].length - a[0].length)
SortedAbbreviations == StableSort(ABBREVIATIONS, LAMBDA a, b : Len(a.key) > Len(b.key))

\* new RegExp(`\\b${escapeRegex(abbr)}\\b`, "g"): escapeRegex makes every
\* character of abbr match itself
AbbrRe(abbr) == <<Wb>> \o Lit(abbr) \o <<Wb>>

\* one pass of the loop over sorted: st.k entries are done
ExpandStep(sorted, st) ==
  [k |-> st.k + 1,
   decoded |-> ReplaceAll(AbbrRe(sorted[st.k + 1].key), st.decoded, sorted[st.k + 1].full)]

\* the text after the loop over the abbreviations
ExpandAbbreviations(sorted, text) ==
  Loop(LAMBDA st : ExpandStep(sorted, st),
       LAMBDA st : st.k >= Len(sorted),
       Len(sorted),
       [k |-> 0, decoded |-> text]).decoded

\* \d{2}[LRC]? under the i flag
RunwayDesignator == <<Cls(Digit, 2, 2), Maybe({"L", "R", "C", "l", "r", "c"})>>

\* RWY under the i flag
RwyI == <<{"R", "r"}, {"W", "w"}, {"Y", "y"}>>

\* /\bRWY\s+(\d{2}[LRC]?)\s*\/\s*(\d{2}[LRC]?)\b/gi
RunwayPairRe ==
  <<Wb>> \o [k \in 1..3 |-> One(RwyI[k])] \o <<Plus(Space), Open(1)>> \o RunwayDesignator
  \o <<Close(1), Star(Space), Ch("/"), Star(Space), Open(2)>> \o RunwayDesignator
  \o <<Close(2), Wb>>

\* /\bRWY\s+(\d{2}[LRC]?)\b/gi
RunwayRe ==
  <<Wb>> \o [k \in 1..3 |-> One(RwyI[k])] \o <<Plus(Space), Open(1)>> \o RunwayDesignator
  \o <<Close(1), Wb>>

RunwayWord == <<"R", "u", "n", "w", "a", "y", " ">>

\* the two replacements of runway numbers, the pairs first
RewriteRunways(text) ==
  LET pairs == ReplaceAllBy(RunwayPairRe, text,
                            LAMBDA m : RunwayWord \o Group(m, text, 1) \o <<"/">>
                                       \o Group(m, text, 2))
  IN  ReplaceAllBy(RunwayRe, pairs, LAMBDA m : RunwayWord \o Group(m, pairs, 1))

\* decoded.replace(/\s+/g, " ").trim()
CleanUpSpaces(text) == Trim(ReplaceAll(<<Plus(Space)>>, text, <<" ">>))

decodeNotamText(text) ==
  CleanUpSpaces(RewriteRunways(ExpandAbbreviations(SortedAbbreviations, text)))

(***************************************************************************)
(* The validator as a state machine.  A call takes the machine from idle   *)
(* to done, where input holds the argument of the call and result the      *)
(* value it returned; Return takes it back to idle.  Nothing is kept from  *)
(* one call to the next.                                                   *)
(***************************************************************************)
\* the user sessions that call the engine
Sessions == {"first", "second"}

\* a session that has made no call yet
NoCall == [pc |-> "idle", call |-> "none", input |-> <<>>, result |-> <<>>]

\* the module-level objects of the two source files: the reference tables,
\* as the modules define them
ReferenceTables ==
  [EQUIPMENT_COM_NAV |-> EQUIPMENT_COM_NAV, EQUIPMENT_SSR |-> EQUIPMENT_SSR,
   PBN_CODES |-> PBN_CODES, FLIGHT_RULES |-> FLIGHT_RULES, FLIGHT_TYPES |-> FLIGHT_TYPES,
   PERFORMANCE_CATEGORIES |-> PERFORMANCE_CATEGORIES, OMAN_AIRPORTS |-> OMAN_AIRPORTS,
   GCC_AIRPORTS |-> GCC_AIRPORTS, COMMON_AIRPORTS |-> COMMON_AIRPORTS,
   WAKE_CATEGORIES |-> WAKE_CATEGORIES, FIELD18_PREFIXES |-> FIELD18_PREFIXES,
   AIRCRAFT_TYPES |-> AIRCRAFT_TYPES, QCODE_SUBJECT |-> QCODE_SUBJECT,
   QCODE_CONDITION |-> QCODE_CONDITION, ABBREVIATIONS |-> ABBREVIATIONS]

Init ==
  /\ pc = "idle" /\ call = "none" /\ input = <<>> /\ result = <<>>
  /\ sessions = [s \in Sessions |-> NoCall]
  /\ tables = ReferenceTables

Return ==
  /\ pc = "done"
  /\ pc' = "idle" /\ call' = "none" /\ input' = <<>> /\ result' = <<>>
  /\ UNCHANGED <<sessions, tables>>

\* validateFPL is called on raw and returns returned
ValidateFPL(raw, returned) ==
  /\ pc = "idle"
  /\ pc' = "done" /\ call' = "validateFPL" /\ input' = raw /\ result' = returned
  /\ UNCHANGED <<sessions, tables>>

\* validateField18Only is called on text and returns returned
ValidateField18Only(text, returned) ==
  /\ pc = "idle"
  /\ pc' = "done" /\ call' = "validateField18Only" /\ input' = text /\ result' = returned
  /\ UNCHANGED <<sessions, tables>>

(***************************************************************************)
(* Flight plan messages submitted to the validator                         *)
(***************************************************************************)
\* the largest number of alternate aerodromes in a Field 16
MaxAlternates == 1

\* the largest number of letter+digit pairs in a PBN/ value
MaxPbnPairs == 2

\* Field 9 with the equipment joined by a hyphen: with R, without R or Z,
\* with Z, with a code that is in no table (Q), with N for no COM/NAV
\* equipment, two with a number of aircraft of three digits, and two whose
\* type designator holds R (CRJ7) or Z (ZZZZ) while the equipment does not
TypeEquipments ==
  {<<"B", "7", "3", "8", "/", "M", "-", "S", "R", "/", "C">>, <<"A", "3", "2", "0", "/", "M", "-", "S", "D", "G", "/", "C">>, <<"B", "7", "3", "8", "/", "M", "-", "S", "Z", "/", "C">>,
   <<"B", "7", "3", "8", "/", "M", "-", "S", "Q", "/", "C">>, <<"B", "7", "3", "8", "/", "M", "-", "N", "/", "C">>,
   <<"0", "1", "2", "B", "7", "3", "8", "/", "M", "-", "S", "R", "/", "C">>, <<"0", "1", "2", "B", "7", "3", "8", "/", "M", "-", "S", "Q", "/", "C">>,
   <<"C", "R", "J", "7", "/", "M", "-", "S", "D", "G", "/", "C">>, <<"Z", "Z", "Z", "Z", "/", "M", "-", "S", "D", "G", "/", "C">>}

RulesTypes == {<<"I", "S">>, <<"V", "G">>}

RECURSIVE Alternates(_)
Alternates(n) == IF n = 0 THEN <<>> ELSE <<" ", "O", "O", "M", "S">> \o Alternates(n - 1)

\* a destination alone, and a destination with EET and alternates
Field16s == {<<"O", "O", "S", "A">>} \cup {<<"O", "O", "S", "A", "0", "1", "4", "5">> \o Alternates(n) : n \in 0..MaxAlternates}

\* "0" is the ICAO notation for no other information; the last one starts
\* with an item whose prefix is in no table
Field18s ==
  {<<"0">>, <<"P", "B", "N", "/", "A", "1", "B", "2", " ", "D", "O", "F", "/", "2", "6", "0", "2", "1", "5", " ", "R", "E", "G", "/", "A", "4", "O", "E", "E">>,
   <<"D", "O", "F", "/", "2", "6", "0", "2", "1", "5", " ", "R", "E", "G", "/", "A", "4", "O", "E", "E">>, <<"R", "M", "K", "/", "N", "I", "L">>,
   <<"X", "Y", "Z", "/", "A", "B", "C", " ", "D", "O", "F", "/", "2", "6", "0", "2", "1", "5", " ", "R", "E", "G", "/", "A", "4", "O", "E", "E">>}

\* the message made of the fields, the last one left out when it is <<>>
FplMessage(fields) == <<"(", "F", "P", "L", "-">> \o Join(fields, <<"-">>) \o <<")">>

WellFormedMessages ==
  {FplMessage(<<<<"O", "M", "A", "1", "2", "3">>, f8, f9, <<"O", "M", "D", "B", "1", "2", "0", "0">>, <<"N", "0", "4", "5", "0", "F", "3", "6", "0", " ", "D", "C", "T">>, f16>> \o tail) :
     f8 \in RulesTypes, f9 \in TypeEquipments, f16 \in Field16s,
     tail \in {<<>>} \cup {<<f18>> : f18 \in Field18s}}

\* texts that are no flight plan
BrokenMessages == {<<>>, <<"F", "P", "L">>, <<"(", "F", "P", "L", "-", "O", "M", "A", "1", "2", "3", "-", "I", "S", "-", "B", "7", "3", "8", "/", "M", ")">>, <<"H", "E", "L", "L", "O", " ", "W", "O", "R", "L", "D">>}

FplInputs == WellFormedMessages \cup BrokenMessages

(***************************************************************************)
(* Field 18 texts submitted to validateField18Only                         *)
(***************************************************************************)
PbnPairs == {<<"A", "1">>, <<"B", "2">>, <<"Z", "9">>}

RECURSIVE PairLists(_)
PairLists(n) ==
  IF n = 0 THEN {<<>>}
  ELSE PairLists(n - 1) \cup {l \o p : l \in {x \in PairLists(n - 1) : Len(x) = 2 * (n - 1)},
                                       p \in PbnPairs}

\* no PBN/ item, or PBN/ with up to MaxPbnPairs pairs
PbnItems == {<<>>} \cup {<<<<"P", "B", "N", "/">> \o l>> : l \in PairLists(MaxPbnPairs)}

DofItems == {<<>>, <<<<"D", "O", "F", "/", "2", "6", "0", "2", "1", "5">>>>, <<<<"D", "O", "F", "/", "2", "6">>>>}

RegItems == {<<>>, <<<<"R", "E", "G", "/", "A", "4", "O", "E", "E">>>>}

\* texts with an item whose prefix is in no table, or with words before the
\* first item
UnknownItemTexts ==
  {<<"X", "Y", "Z", "/", "A", "B", "C", " ", "D", "O", "F", "/", "2", "6", "0", "2", "1", "5", " ", "R", "E", "G", "/", "A", "4", "O", "E", "E">>, <<"D", "O", "F", "/", "2", "6", "0", "2", "1", "5", " ", "X", "Y", "Z", "/", "A", "B", "C">>,
   <<"X", "Y", "Z", "/", "A", "B", "C">>, <<"N", "I", "L", " ", "R", "M", "K", "/", "T", "E", "S", "T">>}

Field18Inputs ==
  {Join(pbn \o dof \o reg, <<" ">>) : pbn \in PbnItems, dof \in DofItems, reg \in RegItems}
  \cup UnknownItemTexts

NextFPL ==
  \/ \E raw \in FplInputs : ValidateFPL(raw, validateFPL(raw))
  \/ \E text \in Field18Inputs : ValidateField18Only(text, validateField18Only(text))
  \/ Return

SpecFPL == Init /\ [][NextFPL]_vars

(***************************************************************************)
(* Properties of validateFPL and validateField18Only                       *)
(***************************************************************************)
\* the call of op has returned
Returned(op) == pc = "done" /\ call = op

\* validateFPL has returned with a parsed record
Parsed == Returned("validateFPL") /\ result.parsed # Null

\* the strict pattern of parseFPL matches raw
StrictMatches(raw) == Match(StrictFplRe, CleanFpl(raw)).ok

\* the lenient split of parseFPL yields enough parts for raw
LenientSplits(raw) == Len(DashParts(CleanFpl(raw))) >= MinDashParts

\* the findings of results that carry the field
FindingsFor(results, field) == SelectSeq(results, LAMBDA r : r.field = field)

\* some finding of results carries the field and the severity
HasFinding(results, field, severity) ==
  \E k \in 1..Len(results) : results[k].field = field /\ results[k].severity = severity

\* C1: when neither extraction strategy of parseFPL succeeds, validateFPL
\* returns the single finding Format/error, parsed = null, an empty Field 18
\* map and the summary 1/0/0/0, hence no field-level, Cross-check or
\* CADAS-ATS finding.
C1_FailedExtractionIsOneFormatError ==
  (Returned("validateFPL") /\ ~StrictMatches(input) /\ ~LenientSplits(input)) =>
     /\ result.parsed = Null
     /\ result.field18Parsed = <<>>
     /\ Len(result.results) = 1
     /\ result.results[1].field = "Format"
     /\ result.results[1].severity = "error"
     /\ result.summary = [errors |-> 1, warnings |-> 0, info |-> 0, success |-> 0]

\* a text with hyphens that neither strategy extracts has been validated
C1_Witness ==
  /\ Returned("validateFPL")
  /\ ~StrictMatches(input) /\ ~LenientSplits(input)
  /\ Includes(input, <<"-">>)

\* the equipment of a Field 9 that carries it after a hyphen
EquipmentOf(field9) ==
  IF Includes(field9, <<"-">>) THEN SubstringFrom(field9, IndexOf(field9, <<"-">>, 0) + 1)
  ELSE <<>>

\* the Field 18 map has the key
HasKey(field18, key) == \E k \in 1..Len(field18) : field18[k].key = key

\* C2: a flight plan with R in its equipment string and no PBN key in its
\* Field 18 map gets a Cross-check error, also when the map is empty.
C2_RWithoutPbnIsCrossCheckError ==
  (/\ Parsed
   /\ Includes(EquipmentOf(result.parsed.field9), <<"R">>)
   /\ ~HasKey(result.field18Parsed, KeyPBN)) =>
     HasFinding(result.results, "Cross-check", "error")

VerdictPositive(res) ==
  /\ Len(FindingsFor(res.results, "CADAS-ATS")) = 1
  /\ res.results[Len(res.results)].field = "CADAS-ATS"
  /\ res.results[Len(res.results)].severity = "success"
  /\ res.summary.errors = 0

\* C8: on a successful parse the summary holds, for each severity, the number
\* of findings of that severity in the results, the four numbers add up to
\* the length of the results, and the verdict is positive exactly when no
\* finding before the last has severity error.
C8_SummaryCountsAndVerdict ==
  Parsed =>
    LET n == Len(result.results)
        number(sev) == Cardinality({k \in 1..n : result.results[k].severity = sev})
    IN  /\ result.summary.errors = number("error")
        /\ result.summary.warnings = number("warning")
        /\ result.summary.info = number("info")
        /\ result.summary.success = number("success")
        /\ result.summary.errors + result.summary.warnings
             + result.summary.info + result.summary.success = n
        /\ VerdictPositive(result)
             <=> (\A k \in 1..(n - 1) : result.results[k].severity # "error")

\* a parsed flight plan with an error among its findings and a negative verdict
C8_Witness ==
  /\ Parsed
  /\ \E k \in 1..(Len(result.results) - 1) : result.results[k].severity = "error"
  /\ result.results[Len(result.results)].field = "CADAS-ATS"
  /\ result.results[Len(result.results)].severity = "error"

FindingFields ==
  {"Format", "Field 7", "Field 8", "Field 9", "Field 10", "Field 13", "Field 15",
   "Field 16", "Field 18", "Cross-check", "CADAS-ATS"}

\* Field 9 is of the form "type/wake-equipment" that makes validateField9
\* pass the equipment to validateField10
EquipmentTokenized(field9) ==
  /\ ~Match(Field9Re, field9).ok
  /\ Match(Field9AltRe, field9).ok
  /\ StartsWith(Group(Match(Field9AltRe, field9), field9, 3), <<"-">>)

\* C9: a finding's field is one the run inspected: only Format after a
\* failed extraction; only Field 18 from validateField18Only; Field 10 only
\* in a run that tokenized an equipment fragment; and always one of the
\* eleven field names.
C9_FindingsNameInspectedFields ==
  /\ Returned("validateFPL") =>
       /\ \A k \in 1..Len(result.results) : result.results[k].field \in FindingFields
       /\ result.parsed = Null =>
            \A k \in 1..Len(result.results) : result.results[k].field = "Format"
       /\ (\E k \in 1..Len(result.results) : result.results[k].field = "Field 10") =>
            result.parsed # Null /\ EquipmentTokenized(result.parsed.field9)
  /\ Returned("validateField18Only") =>
       \A k \in 1..Len(result) : result[k].field = "Field 18"

\* a run of validateFPL with a Field 10 finding
C9_Witness ==
  Parsed /\ \E k \in 1..Len(result.results) : result.results[k].field = "Field 10"

\* C10: a flight plan matched by the strict pattern of parseFPL gets a
\* non-null parsed record, which is the one the strict pattern extracts
\* whatever the lenient split would give, and a first finding Format/success.
C10_StrictMatchIsParsedByStrictPattern ==
  (Returned("validateFPL") /\ StrictMatches(input)) =>
     /\ result.parsed # Null
     /\ result.parsed = StrictParse(CleanFpl(input), Match(StrictFplRe, CleanFpl(input)))
     /\ result.results[1].field = "Format"
     /\ result.results[1].severity = "success"

\* a flight plan matched by the strict pattern for which the lenient split
\* would give another record
C10_Witness ==
  /\ Returned("validateFPL") /\ StrictMatches(input) /\ LenientSplits(input)
  /\ result.parsed # LenientParse(CleanFpl(input), DashParts(CleanFpl(input)))

\* the value of the item of a Field 18 text that starts with the prefix: the
\* characters after the prefix up to the next space (<<>> without that item)
ItemValue(text, prefix) ==
  LET at == IndexOf(text, prefix, 0)
      from == at + Len(prefix)
      space == IndexOf(text, <<" ">>, from)
  IN  IF at = -1 THEN <<>>
      ELSE Substring(text, from, IF space = -1 THEN Len(text) ELSE space)

\* the text has PBN/, DOF/ and REG/ items with non-empty values
HasPbnDofReg(text) ==
  /\ ItemValue(text, <<"P", "B", "N", "/">>) # <<>>
  /\ ItemValue(text, <<"D", "O", "F", "/">>) # <<>>
  /\ ItemValue(text, <<"R", "E", "G", "/">>) # <<>>

\* the letter+digit pairs of a PBN value made of such pairs
PairsOf(value) == [k \in 1..(Len(value) \div 2) |-> SubSeq(value, 2 * k - 1, 2 * k)]

\* the pairs of the PBN item of the text that are in the PBN table
RecognizedPairs(text) ==
  SelectSeq(PairsOf(ItemValue(text, <<"P", "B", "N", "/">>)), LAMBDA c : Has(PBN_CODES, c))

\* the pairs of the PBN item of the text that are not in the PBN table
UnknownPairs(text) ==
  SelectSeq(PairsOf(ItemValue(text, <<"P", "B", "N", "/">>)), LAMBDA c : ~Has(PBN_CODES, c))

\* the message that lists the recognized pairs, each with its name
CapabilitiesMessage(pairs) ==
  <<"PBN capabilities: ">>
    \o Join([k \in 1..Len(pairs) |-> pairs[k] \o <<" (", Entry(PBN_CODES, pairs[k]).name, ")">>],
            <<", ">>)

\* the message that lists the unknown pairs
UnknownMessage(pairs) == <<"Unknown PBN codes: ">> \o Join(pairs, <<", ">>)

\* the findings of results with the severity
WithSeverity(results, severity) == SelectSeq(results, LAMBDA r : r.severity = severity)

\* some finding of results has the message
HasMessage(results, message) == \E k \in 1..Len(results) : results[k].message = message

\* what the claim C7 says besides the info finding: the Unknown PBN codes
\* warning is there exactly for the unknown pairs, and neither the
\* missing-DOF nor the missing-REG warning is
PbnWarningsAsClaimed(text, results) ==
  /\ UnknownPairs(text) # <<>> => HasMessage(results, UnknownMessage(UnknownPairs(text)))
  /\ UnknownPairs(text) = <<>> =>
       ~\E k \in 1..Len(results) : results[k].message[1] = "Unknown PBN codes: "
  /\ ~HasMessage(results, <<"DOF/ (date of flight) is recommended">>)
  /\ ~HasMessage(results, <<"REG/ (registration) is recommended for Oman FIR operations">>)

\* the example of C7: A1 and B2 are listed and there is no warning or error
PbnExampleAsClaimed(text, results) ==
  text = <<"P", "B", "N", "/", "A", "1", "B", "2", " ", "D", "O", "F", "/", "2", "6", "0", "2", "1", "5", " ", "R", "E", "G", "/", "A", "4", "O", "E", "E">> =>
    /\ HasMessage(results, CapabilitiesMessage(<<<<"A", "1">>, <<"B", "2">>>>))
    /\ WithSeverity(results, "warning") = <<>>
    /\ WithSeverity(results, "error") = <<>>

\* C7 as stated: validateField18Only on a text with PBN/, DOF/ and REG/ items
\* of non-empty value emits one info finding, which lists exactly the pairs
\* found in the PBN table, the Unknown PBN codes warning exactly for the
\* other pairs, and no missing-DOF or missing-REG warning.
C7_OneInfoFindingInEveryCase ==
  (Returned("validateField18Only") /\ HasPbnDofReg(input)) =>
     /\ Len(WithSeverity(result, "info")) = 1
     /\ WithSeverity(result, "info")[1].message = CapabilitiesMessage(RecognizedPairs(input))
     /\ PbnWarningsAsClaimed(input, result)
     /\ PbnExampleAsClaimed(input, result)

\* C7, amended: the info finding is emitted when at least one pair is in the
\* PBN table, and then it is the only one and lists exactly those pairs;
\* when no pair is in the table there is no info finding.  The warnings and
\* the example are as stated.
C7_InfoFindingWhenAPairIsRecognized ==
  (Returned("validateField18Only") /\ HasPbnDofReg(input)) =>
     /\ RecognizedPairs(input) # <<>> =>
          /\ Len(WithSeverity(result, "info")) = 1
          /\ WithSeverity(result, "info")[1].message
               = CapabilitiesMessage(RecognizedPairs(input))
     /\ RecognizedPairs(input) = <<>> => WithSeverity(result, "info") = <<>>
     /\ PbnWarningsAsClaimed(input, result)
     /\ PbnExampleAsClaimed(input, result)

\* a text with the three items whose PBN value has a pair of the table and a
\* pair that is not in it
C7_Witness ==
  /\ Returned("validateField18Only") /\ HasPbnDofReg(input)
  /\ RecognizedPairs(input) # <<>> /\ UnknownPairs(input) # <<>>

(***************************************************************************)
(* validateField13 on its own                                              *)
(***************************************************************************)
\* validateField13 is called on field13 and returns returned
ValidateField13(field13, returned) ==
  /\ pc = "idle"
  /\ pc' = "done" /\ call' = "validateField13" /\ input' = field13 /\ result' = returned
  /\ UNCHANGED <<sessions, tables>>

\* the largest hour of the EOBTs submitted
MaxInputHour == 25

\* the largest minute of the EOBTs submitted
MaxInputMinute == 61

\* n as two digits
TwoDigits(n) == NumToStr(n \div 10) \o NumToStr(n % 10)

InputMinutes == {0, 30} \cup {m \in 0..MaxInputMinute : m >= 58}

\* a departure aerodrome of Oman or not, with every EOBT of the hours and
\* minutes submitted; a Field 13 that is too short; EOBTs that are no digits
Field13Inputs ==
  {icao \o TwoDigits(h) \o TwoDigits(m) :
     icao \in {<<"O", "O", "S", "A">>, <<"O", "M", "D", "B">>}, h \in 0..MaxInputHour, m \in InputMinutes}
  \cup {<<"O", "O", "S", "A", "1", "2">>, <<"O", "O", "S", "A", "1", "2", "A", "0">>, <<"O", "O", "S", "A", " ", "9", "3", "0">>, <<"o", "o", "s", "a", "0", "9", "3", "0">>, <<"O", "1", "S", "A", "0", "9", "3", "0", " ", "X">>}

NextField13 ==
  \/ \E field13 \in Field13Inputs : ValidateField13(field13, validateField13(field13))
  \/ Return

SpecField13 == Init /\ [][NextField13]_vars

\* the findings of results whose message starts with the text
StartingWith(results, text) == SelectSeq(results, LAMBDA r : r.message[1] = text)

\* C4: for a Field 13 whose characters 5-8 are digits HHMM, validateField13
\* emits an EOBT success finding exactly when HH <= 23 and MM <= 59 and an
\* EOBT error finding exactly otherwise, never both; "2400" is an error and
\* "2359" a success.
C4_EobtSuccessIffInRange ==
  (/\ Returned("validateField13")
   /\ Len(input) >= 8
   /\ \A j \in 5..8 : input[j] \in Digit) =>
     LET hh == 10 * DigitVal(input[5]) + DigitVal(input[6])
         mm == 10 * DigitVal(input[7]) + DigitVal(input[8])
         eobt == SubSeq(input, 5, 8)
         successes == SelectSeq(StartingWith(result, "EOBT: "),
                                LAMBDA r : r.severity = "success")
         errors == SelectSeq(StartingWith(result, "Invalid EOBT time: ")
                               \o StartingWith(result, "Invalid EOBT: \""),
                             LAMBDA r : r.severity = "error")
     IN  /\ Len(successes) + Len(errors) = 1
         /\ Len(successes) = 1 <=> (hh <= 23 /\ mm <= 59)
         /\ Len(successes) = 1 => successes[1].message = <<"EOBT: ">> \o eobt \o <<"Z">>
         /\ eobt = <<"2", "4", "0", "0">> => Len(errors) = 1
         /\ eobt = <<"2", "3", "5", "9">> => Len(successes) = 1

\* the EOBT 2400 has been validated
C4_Witness ==
  Returned("validateField13") /\ Len(input) = 8 /\ SubSeq(input, 5, 8) = <<"2", "4", "0", "0">>

(***************************************************************************)
(* decodeNotamText on its own                                              *)
(***************************************************************************)
\* decodeNotamText is called on text and returns returned
DecodeNotamText(text, returned) ==
  /\ pc = "idle"
  /\ pc' = "done" /\ call' = "decodeNotamText" /\ input' = text /\ result' = returned
  /\ UNCHANGED <<sessions, tables>>

\* the largest number of phrases in a free text submitted
MaxPhrases == 2

\* abbreviations of the table, among them a key of two words (DUE TO), keys
\* with a stroke (ILS/DME, U/S), a key of one letter (M) and keys that occur
\* in an expansion (ILS, DME, NOTAM), and words that are no abbreviation
Phrases ==
  {<<"R", "W", "Y", " ", "0", "7", "/", "2", "5", " ", "C", "L", "S", "D">>, <<"D", "U", "E", " ", "W", "I", "P">>, <<"D", "U", "E", " ", "T", "O", " ", "M", "A", "I", "N", "T">>, <<"I", "L", "S">>, <<"I", "L", "S", "/", "D", "M", "E", " ", "U", "/", "S">>,
   <<"N", "O", "T", "A", "M", "N">>, <<"M">>, <<"H", "E", "L", "L", "O">>, <<"T", "W", "Y", " ", "B">>, <<"P", "A", "P", "I">>}

RECURSIVE PhraseLists(_)
PhraseLists(n) ==
  IF n = 0 THEN {<<>>}
  ELSE PhraseLists(n - 1) \cup {Append(l, p) : l \in {x \in PhraseLists(n - 1) : Len(x) = n - 1},
                                               p \in Phrases}

\* the free texts of up to MaxPhrases phrases
NotamTexts == {Join(l, <<" ">>) : l \in PhraseLists(MaxPhrases)}

NextNotamText ==
  \/ \E text \in NotamTexts : DecodeNotamText(text, decodeNotamText(text))
  \/ Return

SpecNotamText == Init /\ [][NextNotamText]_vars

\* C5: decoding the decoded text again changes nothing:
\* decode(decode(t)) = decode(t).
C5_DecodingTwiceIsDecodingOnce ==
  Returned("decodeNotamText") => decodeNotamText(result) = result

\* position pos of s (1-based, up to Len(s) + 1) is at a word boundary
AtBoundary(s, pos) == IsWordAt(s, pos - 1) # IsWordAt(s, pos)

\* the entries of the table whose key occurs in s as a whole word at pos
KeysAt(s, pos) ==
  {k \in 1..Len(ABBREVIATIONS) :
     /\ OccursAt(s, ABBREVIATIONS[k].key, pos)
     /\ AtBoundary(s, pos)
     /\ AtBoundary(s, pos + Len(ABBREVIATIONS[k].key))}

\* the entry with the longest key among those of the set ks
Longest(ks) ==
  CHOOSE k \in ks : \A j \in ks : Len(ABBREVIATIONS[j].key) <= Len(ABBREVIATIONS[k].key)

\* one step of a reading of s from left to right: the longest key that
\* occurs as a whole word at the position is replaced by its expansion,
\* and a character at which no key occurs is copied
ReadStep(s, st) ==
  IF KeysAt(s, st.pos) = {}
  THEN [pos |-> st.pos + 1, out |-> Append(st.out, s[st.pos])]
  ELSE [pos |-> st.pos + Len(ABBREVIATIONS[Longest(KeysAt(s, st.pos))].key),
        out |-> st.out \o ABBREVIATIONS[Longest(KeysAt(s, st.pos))].full]

\* s with every whole-word occurrence of a key replaced by the expansion of
\* the key, longest key first, the text of the expansions left as it is
EachKeyExpanded(s) ==
  Loop(LAMBDA st : ReadStep(s, st), LAMBDA st : st.pos > Len(s), Len(s),
       [pos |-> 1, out |-> <<>>]).out

\* the entries whose key occurs as a whole word somewhere in s
KeysIn(s) == UNION {KeysAt(s, pos) : pos \in 1..Len(s)}

\* the expansions of the keys read in s hold no key but, at most, their own
ExpansionsHoldNoOtherKey(s) ==
  \A pos \in 1..Len(s) :
    KeysAt(s, pos) # {} =>
      KeysIn(ABBREVIATIONS[Longest(KeysAt(s, pos))].full) \subseteq {Longest(KeysAt(s, pos))}

\* s with every run of white space made one space, and trimmed
SpacesCollapsed(s) == Trim(ReplaceAll(<<Plus(Space)>>, s, <<" ">>))

\* C6: decodeNotamText replaces every whole-word occurrence of a key by its
\* expansion, longest key first: DUE TO is expanded as one unit, M is not
\* replaced inside MAINT, and "RWY 07/25 CLSD DUE WIP" becomes "Runway 07/25
\* Closed Due to Work in Progress".  The result is compared with a reading
\* of the input from left to right for the texts whose expansions hold no
\* other key (what happens to a key inside the text of an expansion is the
\* matter of C29); for every text, no key is left in the result as a whole
\* word but a key that its own expansion holds.
C6_WholeWordKeysExpandedLongestFirst ==
  Returned("decodeNotamText") =>
    /\ ExpansionsHoldNoOtherKey(input) => result = SpacesCollapsed(EachKeyExpanded(input))
    /\ \A k \in KeysIn(result) : k \in KeysIn(ABBREVIATIONS[k].full)
    /\ input = <<"R", "W", "Y", " ", "0", "7", "/", "2", "5", " ", "C", "L", "S", "D", " ", "D", "U", "E", " ", "W", "I", "P">>
         => result = <<"R", "u", "n", "w", "a", "y", " ", "0", "7", "/", "2", "5", " ", "C", "l", "o", "s", "e", "d", " ", "D", "u", "e", " ", "t", "o", " ", "W", "o", "r", "k", " ", "i", "n", " ", "P", "r", "o", "g", "r", "e", "s", "s">>
    /\ input = <<"D", "U", "E", " ", "T", "O", " ", "M", "A", "I", "N", "T", " ", "M">> => result = <<"D", "u", "e", " ", "t", "o", " ", "M", "a", "i", "n", "t", "e", "n", "a", "n", "c", "e", " ", "M", "e", "t", "r", "e", "s">>

\* a text with the key DUE TO and the word MAINT has been decoded
C6_Witness ==
  /\ Returned("decodeNotamText")
  /\ ExpansionsHoldNoOtherKey(input)
  /\ Includes(input, <<"D", "U", "E", " ", "T", "O", " ", "M", "A", "I", "N", "T">>)
  /\ Includes(result, <<"D", "u", "e", " ", "t", "o", " ", "M", "a", "i", "n", "t", "e", "n", "a", "n", "c", "e">>)

(***************************************************************************)
(* NOTAM decoder: decodeNotam and formatNotamDate                          *)
(***************************************************************************)
\* s.endsWith(p)
EndsWith(s, p) == Len(s) >= Len(p) /\ SubSeq(s, Len(s) - Len(p) + 1, Len(s)) = p

\* a || b for strings: b when a is empty
OrElse(a, b) == IF a # <<>> THEN a ELSE b

\* parseInt(s) yields NaN when s, after leading white space, does not start
\* with a digit.  NaN is written as a number no text without a sign is
\* parsed to, and as an index it finds nothing, like NaN.
NaN == 0 - 1

\* parseInt(s): the number written by the decimal digits that start s
ParseIntLeading(s) ==
  LET solid == {i \in 1..Len(s) : s[i] \notin Space}
      from == IF solid = {} THEN Len(s) + 1 ELSE SetMin(solid)
      stops == {i \in from..Len(s) : s[i] \notin Digit}
      upto == IF stops = {} THEN Len(s) ELSE SetMin(stops) - 1
  IN  IF upto < from THEN NaN ELSE ParseInt(SubSeq(s, from, upto))

\* monthNames of formatNotamDate, indexed from 1 (monthNames[0] is "")
MonthNames ==
  <<<<"J", "a", "n">>, <<"F", "e", "b">>, <<"M", "a", "r">>, <<"A", "p", "r">>, <<"M", "a", "y">>, <<"J", "u", "n">>,
    <<"J", "u", "l">>, <<"A", "u", "g">>, <<"S", "e", "p">>, <<"O", "c", "t">>, <<"N", "o", "v">>, <<"D", "e", "c">>>>

\* a month table read one place too far
MonthNameFromZero(m) ==
  IF m \in 0..(Len(MonthNames) - 1) THEN MonthNames[m + 1] ELSE <<>>

\* monthNames[m], the empty string standing for undefined as well (only its
\* truth value and its text are used)
MonthName(m) == IF m \in 1..Len(MonthNames) THEN MonthNames[m] ELSE <<>>

\* the length from which a B) or C) value is read as YYMMDDHHMM
DateGroupLength == 10

formatNotamDate(dateStr) ==
  IF dateStr = <<>> THEN <<>>
  ELSE IF ToUpperCase(dateStr) = <<"P", "E", "R", "M">> THEN <<"P", "e", "r", "m", "a", "n", "e", "n", "t">>
  ELSE IF ToUpperCase(dateStr) = <<"U", "F", "N">> THEN <<"U", "n", "t", "i", "l", " ", "F", "u", "r", "t", "h", "e", "r", " ", "N", "o", "t", "i", "c", "e">>
  ELSE IF ToUpperCase(dateStr) = <<"E", "S", "T">> THEN <<"E", "s", "t", "i", "m", "a", "t", "e", "d">>
  ELSE IF Len(dateStr) >= DateGroupLength
  THEN LET year == Substring(dateStr, 0, 2)
           month == Substring(dateStr, 2, 4)
           day == Substring(dateStr, 4, 6)
           hour == Substring(dateStr, 6, 8)
           min == Substring(dateStr, 8, 10)
           m == ParseIntLeading(month)
       IN  day \o <<" ">> \o OrElse(MonthName(m), month) \o <<" ", "2", "0">> \o year
             \o <<" ">> \o hour \o <<":">> \o min \o <<" ", "U", "T", "C">>
  ELSE dateStr

\* /\(?([A-Z])(\d{4})\/(\d{2})\s+(NOTAM[NRC])/
NotamIdRe ==
  <<Maybe({"("}), Open(1), One(Upper), Close(1), Open(2), Cls(Digit, 4, 4), Close(2),
    Ch("/"), Open(3), Cls(Digit, 2, 2), Close(3), Plus(Space), Open(4)>>
    \o Lit(<<"N", "O", "T", "A", "M">>) \o <<One({"N", "R", "C"}), Close(4)>>

\* /^[A-G]\)/
SectionRe == <<Bol, One({"A", "B", "C", "D", "E", "F", "G"}), Ch(")")>>

\* /\)\s*$/
ClosingParenRe == <<Ch(")"), Star(Space), Eol>>

TypeLabel(type) ==
  IF type = <<"N", "O", "T", "A", "M", "N">> THEN <<"N", "e", "w", " ", "N", "O", "T", "A", "M">>
  ELSE IF type = <<"N", "O", "T", "A", "M", "R">> THEN <<"R", "e", "p", "l", "a", "c", "e", "m", "e", "n", "t", " ", "N", "O", "T", "A", "M">>
  ELSE <<"C", "a", "n", "c", "e", "l", "l", "a", "t", "i", "o", "n", " ", "N", "O", "T", "A", "M">>

\* a result object created without its defaults
NotamWithoutDefaults ==
  [f \in {"id", "series", "number", "year", "type", "typeLabel", "qLine", "location",
          "validFrom", "validFromFormatted", "validTo", "validToFormatted", "schedule",
          "rawText", "decodedText", "lowerAlt", "upperAlt", "category", "categoryLabel",
          "conditionLabel"} |-> Undefined]

\* the result object of decodeNotam when it is created
NewNotam ==
  [id |-> <<>>, series |-> <<>>, number |-> <<>>, year |-> <<>>, type |-> <<>>,
   typeLabel |-> <<>>, qLine |-> Null, location |-> <<>>, validFrom |-> <<>>,
   validFromFormatted |-> <<>>, validTo |-> <<>>, validToFormatted |-> <<>>,
   schedule |-> <<>>, rawText |-> <<>>, decodedText |-> <<>>, lowerAlt |-> <<>>,
   upperAlt |-> <<>>, category |-> <<>>, categoryLabel |-> <<>>,
   conditionLabel |-> <<>>]

\* the least number of parts of a Q) line that is decoded
MinQParts == 8

\* the value of a lettered line: line.substring(2).trim()
SectionValue(line) == Trim(SubstringFrom(line, 2))

\* the fields the identifier line sets (lines 203-213)
WithIdentifier(notam, line, idMatch) ==
  [notam EXCEPT
     !.series = Group(idMatch, line, 1),
     !.number = Group(idMatch, line, 2),
     !.year = Group(idMatch, line, 3),
     !.type = Group(idMatch, line, 4),
     !.id = Group(idMatch, line, 1) \o Group(idMatch, line, 2) \o <<"/">>
              \o Group(idMatch, line, 3),
     !.typeLabel = TypeLabel(Group(idMatch, line, 4))]

\* table[key] || otherwise
LabelOr(table, key, otherwise) ==
  IF Has(table, key) THEN OrElse(Entry(table, key).label, otherwise) ELSE otherwise

\* the fields the Q) line sets, when it has enough parts (lines 219-241)
WithQLine(notam, line) ==
  LET qRaw == SectionValue(line)
      parts == SplitChar(qRaw, "/")
      qCode == parts[2]
      subjectCode == IF Len(qCode) >= 4 THEN <<qCode[3]>> ELSE <<>>
      conditionCode == IF Len(qCode) >= 5 THEN <<qCode[5]>> ELSE <<>>
  IN  IF Len(parts) >= MinQParts
      THEN [notam EXCEPT
              !.qLine = [fir |-> Trim(parts[1]),
                         qCode |-> qCode,
                         traffic |-> parts[3],
                         purpose |-> parts[4],
                         scope |-> parts[5],
                         lowerAlt |-> OrElse(parts[6], <<"0", "0", "0">>),
                         upperAlt |-> OrElse(parts[7], <<"9", "9", "9">>),
                         coordinates |-> parts[8]],
              !.category = qCode,
              !.categoryLabel = LabelOr(QCODE_SUBJECT, subjectCode, qCode),
              !.conditionLabel = LabelOr(QCODE_CONDITION, conditionCode, <<>>),
              !.lowerAlt = OrElse(parts[6], <<"0", "0", "0">>),
              !.upperAlt = OrElse(parts[7], <<"9", "9", "9">>)]
      ELSE notam

\* is the line appended to the E) text (line 297)
IsContinuation(currentSection, line) ==
  /\ currentSection = "E"
  /\ ~Test(SectionRe, line)
  /\ ~EndsWith(line, <<")">>)

\* the body of the loop over the lines (lines 197-300); st holds the index i
\* of the line and the variables result, currentSection and eText
LineStep(lines, st) ==
  LET line == lines[st.i]
      idMatch == Match(NotamIdRe, line)
      next == [st EXCEPT !.i = st.i + 1]
  IN  IF idMatch.ok
      THEN [next EXCEPT !.result = WithIdentifier(st.result, line, idMatch)]
      ELSE IF StartsWith(line, <<"Q", ")">>)
      THEN [next EXCEPT !.result = WithQLine(st.result, line)]
      ELSE IF StartsWith(line, <<"A", ")">>)
      THEN [next EXCEPT !.result.location = SectionValue(line), !.currentSection = "A"]
      ELSE IF StartsWith(line, <<"B", ")">>)
      THEN [next EXCEPT !.result.validFrom = SectionValue(line),
                        !.result.validFromFormatted = formatNotamDate(SectionValue(line)),
                        !.currentSection = "B"]
      ELSE IF StartsWith(line, <<"C", ")">>)
      THEN [next EXCEPT !.result.validTo = SectionValue(line),
                        !.result.validToFormatted = formatNotamDate(SectionValue(line)),
                        !.currentSection = "C"]
      ELSE IF StartsWith(line, <<"D", ")">>)
      THEN [next EXCEPT !.result.schedule = SectionValue(line), !.currentSection = "D"]
      ELSE IF StartsWith(line, <<"E", ")">>)
      THEN [next EXCEPT !.eText = SectionValue(line), !.currentSection = "E"]
      ELSE IF StartsWith(line, <<"F", ")">>)
      THEN [next EXCEPT !.result.lowerAlt = SectionValue(line), !.currentSection = "F"]
      ELSE IF StartsWith(line, <<"G", ")">>)
      THEN [next EXCEPT !.result.upperAlt = SectionValue(line), !.currentSection = "G"]
      ELSE IF IsContinuation(st.currentSection, line)
      THEN [next EXCEPT !.eText = st.eText \o <<" ">> \o line]
      ELSE next

\* raw.trim().split("\n").map((l) => l.trim())
NotamLines(raw) ==
  LET split == SplitChar(Trim(raw), "\n") IN [k \in 1..Len(split) |-> Trim(split[k])]

\* the variables of decodeNotam when the loop is entered (lines 171-195)
NotamLocals == [i |-> 1, result |-> NewNotam, currentSection |-> "", eText |-> <<>>]

\* the E) text of a call that starts from the variables locals
decodeNotamFrom(locals, raw) ==
  LET lines == NotamLines(raw)
      st == Loop(LAMBDA s : LineStep(lines, s), LAMBDA s : s.i > Len(lines),
                 Len(lines), locals)
      eText == Trim(ReplaceFirst(ClosingParenRe, st.eText, <<>>))
  IN  [st.result EXCEPT !.rawText = eText, !.decodedText = decodeNotamText(eText)]

decodeNotam(raw) == decodeNotamFrom(NotamLocals, raw)

(***************************************************************************)
(* Several sessions.  The functions are synchronous: a call runs to its    *)
(* return before the next call starts, so the calls of the sessions        *)
(* interleave call by call.  What the calls share is the module-level      *)
(* state of the two files, which is the reference tables; everything else  *)
(* a call writes (results, result, positions, eText, currentSection) is    *)
(* created inside the call.                                                *)
(***************************************************************************)
\* a table sorted in place, longest key first
SortedInPlace(table) == StableSort(table, LAMBDA a, b : Len(a.key) > Len(b.key))

\* a table after the call has sorted its keys or entries: sort orders the
\* array that Object.keys / Object.entries returns, the table keeps its order
TableAfterSort(table) == table

\* the tables after a call of op: parseField18 sorts the keys of
\* FIELD18_PREFIXES, decodeNotamText the entries of ABBREVIATIONS; no call
\* assigns to a table
TablesAfter(op, t) ==
  IF op = "decodeNotam"
  THEN [t EXCEPT !.ABBREVIATIONS = TableAfterSort(@)]
  ELSE [t EXCEPT !.FIELD18_PREFIXES = TableAfterSort(@)]

\* the session s calls op on arg, which returns returned
SessionCall(s, op, arg, returned) ==
  /\ sessions[s].pc = "idle"
  /\ sessions' = [sessions EXCEPT
                    ![s] = [pc |-> "done", call |-> op, input |-> arg, result |-> returned]]
  /\ tables' = TablesAfter(op, tables)
  /\ UNCHANGED <<pc, call, input, result>>

SessionValidateFPL(s, raw, returned) == SessionCall(s, "validateFPL", raw, returned)

SessionValidateField18Only(s, text, returned) ==
  SessionCall(s, "validateField18Only", text, returned)

SessionDecodeNotam(s, raw, returned) == SessionCall(s, "decodeNotam", raw, returned)

\* the session has seen the result and may call again; it remembers its call
SessionReturn(s) ==
  /\ sessions[s].pc = "done"
  /\ sessions' = [sessions EXCEPT ![s].pc = "idle"]
  /\ UNCHANGED <<pc, call, input, result, tables>>

\* what the sessions submit: a flight plan and a text that is none, two
\* Field 18 texts, a complete NOTAM and one with its E) line only
SessionFplInputs ==
  {<<"(", "F", "P", "L", "-", "O", "M", "A", "1", "2", "3", "-", "I", "S", "-", "B", "7", "3", "8", "/", "M", "-", "S", "R", "/", "C", "-", "O", "M", "D", "B", "1", "2", "0", "0", "-", "N", "0", "4", "5", "0", "F", "3", "6", "0", " ", "D", "C", "T", "-", "O", "O", "S", "A", "0", "1", "4", "5", " ", "O", "O", "M", "S", "-", "P", "B", "N", "/", "A", "1", "B", "2", " ", "D", "O", "F", "/", "2", "6", "0", "2", "1", "5", " ", "R", "E", "G", "/", "A", "4", "O", "E", "E", ")">>,
   <<"H", "E", "L", "L", "O", " ", "W", "O", "R", "L", "D">>}

SessionField18Inputs == {<<"P", "B", "N", "/", "A", "1", "B", "2", " ", "D", "O", "F", "/", "2", "6", "0", "2", "1", "5", " ", "R", "E", "G", "/", "A", "4", "O", "E", "E">>, <<"R", "M", "K", "/", "N", "I", "L">>}

SessionNotamInputs ==
  {<<"(", "C", "1", "2", "3", "4", "/", "2", "6", " ", "N", "O", "T", "A", "M", "N", "\n", "Q", ")", " ", "O", "O", "M", "M", "/", "Q", "M", "R", "L", "C", "/", "I", "V", "/", "N", "B", "O", "/", "A", "/", "0", "0", "0", "/", "9", "9", "9", "/", "1", "7", "0", "3", "N", "0", "5", "4", "0", "5", "E", "0", "0", "5", "\n", "A", ")", " ", "O", "O", "S", "A", "\n", "B", ")", " ", "2", "6", "0", "2", "1", "5", "1", "2", "0", "0", "\n", "C", ")", " ", "2", "6", "0", "3", "1", "5", "1", "6", "0", "0", "\n", "E", ")", " ", "R", "W", "Y", " ", "0", "7", "/", "2", "5", " ", "C", "L", "S", "D", " ", "D", "U", "E", " ", "W", "I", "P", ")">>,
   <<"E", ")", " ", "I", "L", "S", " ", "U", "/", "S">>}

NextSessions ==
  \E s \in Sessions :
    \/ \E raw \in SessionFplInputs : SessionValidateFPL(s, raw, validateFPL(raw))
    \/ \E text \in SessionField18Inputs :
         SessionValidateField18Only(s, text, validateField18Only(text))
    \/ \E raw \in SessionNotamInputs : SessionDecodeNotam(s, raw, decodeNotam(raw))
    \/ SessionReturn(s)

SpecSessions == Init /\ [][NextSessions]_vars

\* what a call of op on arg returns when no other call is made
Alone(op, arg) ==
  IF op = "validateFPL" THEN validateFPL(arg)
  ELSE IF op = "validateField18Only" THEN validateField18Only(arg)
  ELSE decodeNotam(arg)

\* every session holds the result its call returns when run alone
ResultsAsAlone ==
  \A s \in Sessions :
    sessions[s].call # "none" =>
      sessions[s].result = Alone(sessions[s].call, sessions[s].input)

\* a session that repeats its last call on the same input is returned the same
SameCallSameResult ==
  \A s \in Sessions :
    (/\ sessions[s].pc = "idle" /\ sessions'[s].pc = "done"
     /\ sessions'[s].call = sessions[s].call
     /\ sessions'[s].input = sessions[s].input)
    => sessions'[s].result = sessions[s].result

DecodeNotam(raw, returned) ==
  /\ pc = "idle"
  /\ pc' = "done" /\ call' = "decodeNotam" /\ input' = raw /\ result' = returned
  /\ UNCHANGED <<sessions, tables>>

\* the largest number of lines that follow the E) line of a message
MaxFollowingLines == 2

\* the message made of the lines, in parentheses
NotamMessage(lines) == <<"(">> \o Join(lines, <<"\n">>) \o <<")">>

\* a line, or no line
Optional(line) == {<<>>, <<line>>}

\* Q) lines of 8 and of 7 parts
QLines ==
  {<<"Q", ")", " ", "O", "O", "M", "M", "/", "Q", "M", "R", "L", "C", "/", "I", "V", "/", "N", "B", "O", "/", "A", "/", "0", "0", "0", "/", "9", "9", "9", "/", "1", "7", "0", "3", "N", "0", "5", "4", "0", "5", "E", "0", "0", "5">>, <<"Q", ")", " ", "O", "O", "M", "M", "/", "Q", "M", "R", "L", "C", "/", "I", "V", "/", "N", "B", "O", "/", "A", "/", "0", "0", "0", "/", "9", "9", "9">>}

\* messages with every choice of sections present, and texts that are no NOTAM
SectionChoices ==
  {NotamMessage(id \o q \o a \o b \o c \o d \o e) :
     id \in Optional(<<"C", "1", "2", "3", "4", "/", "2", "6", " ", "N", "O", "T", "A", "M", "N">>),
     q \in {<<>>} \cup {<<l>> : l \in QLines},
     a \in Optional(<<"A", ")", " ", "O", "O", "S", "A">>),
     b \in Optional(<<"B", ")", " ", "2", "6", "0", "2", "1", "5", "1", "2", "0", "0">>),
     c \in Optional(<<"C", ")", " ", "P", "E", "R", "M">>),
     d \in Optional(<<"D", ")", " ", "D", "A", "I", "L", "Y", " ", "1", "2", "0", "0", "-", "1", "6", "0", "0">>),
     e \in Optional(<<"E", ")", " ", "I", "L", "S", " ", "U", "/", "S">>)}
  \cup {<<>>, <<"H", "E", "L", "L", "O", " ", "W", "O", "R", "L", "D">>, <<"Q", ")">>, <<"\n", "\n">>}

TwoDigitTexts(lo, hi) == {TwoDigits(n) : n \in lo..hi}

\* B) and C) values: date-time groups of every month, and of the months 00
\* and 13, at three instants; the literals; a group that is too short; one
\* with letters for a month
DateValues ==
  {<<"2", "6">> \o mm \o <<"1", "5", "1", "2", "0", "0">> : mm \in TwoDigitTexts(0, 13)}
  \cup {<<"2", "5", "1", "2", "3", "1", "2", "3", "5", "9">>, <<"2", "6", "0", "1", "0", "1", "0", "0", "0", "0">>, <<"P", "E", "R", "M">>, <<"U", "F", "N">>, <<"E", "S", "T">>, <<"p", "e", "r", "m">>,
        <<"2", "6", "0", "2">>, <<"2", "6", "A", "B", "1", "5", "1", "2", "0", "0">>, <<"W", "I", "E">>}

\* messages with a B) value and messages with a C) value
DatedMessages ==
  {NotamMessage(<<<<"A", "0", "4", "5", "6", "/", "2", "6", " ", "N", "O", "T", "A", "M", "N">>, <<"A", ")", " ", "O", "O", "S", "A">>, tag \o v, <<"E", ")", " ", "T", "E", "S", "T">>>>) :
     tag \in {<<"B", ")", " ">>, <<"C", ")", " ">>}, v \in DateValues}

IdentifierLines ==
  {<<"A", "1", "2", "3", "4", "/", "2", "6", " ", "N", "O", "T", "A", "M", "N">>, <<"B", "0", "7", "8", "9", "/", "2", "6", " ", "N", "O", "T", "A", "M", "R", " ", "B", "0", "7", "0", "0", "/", "2", "6">>, <<"D", "0", "3", "2", "1", "/", "2", "5", " ", "N", "O", "T", "A", "M", "C", " ", "D", "0", "3", "0", "0", "/", "2", "5">>}

\* lines that follow the A) line: a free text, one that quotes another
\* NOTAM, and a second line of free text that does so
LaterLines ==
  {<<<<"E", ")", " ", "R", "W", "Y", " ", "C", "L", "S", "D">>>>, <<<<"E", ")", " ", "R", "W", "Y", " ", "C", "L", "S", "D", " ", "R", "E", "F", " ", "Z", "9", "9", "9", "9", "/", "2", "4", " ", "N", "O", "T", "A", "M", "N">>>>,
   <<<<"E", ")", " ", "R", "W", "Y", " ", "C", "L", "S", "D">>, <<"R", "E", "F", " ", "Z", "9", "9", "9", "9", "/", "2", "4", " ", "N", "O", "T", "A", "M", "N">>>>, <<<<"B", ")", " ", "2", "6", "0", "2", "1", "5", "1", "2", "0", "0">>, <<"C", ")", " ", "P", "E", "R", "M">>>>}

IdentifiedMessages ==
  {NotamMessage(<<id, a>> \o later) :
     id \in IdentifierLines, a \in {<<"A", ")", " ", "O", "O", "S", "A">>, <<"A", ")", " ", " ", "O", "O", "M", "S", " ", "O", "O", "S", "A", " ">>}, later \in LaterLines}

\* lines that may follow an E) line: free text, free text in parentheses, a
\* lettered section
FollowingLines == {<<"D", "U", "E", " ", "W", "I", "P">>, <<"(", "S", "E", "E", " ", "A", "I", "P", ")">>, <<"F", ")", " ", "S", "F", "C">>, <<"T", "W", "Y", " ", "B">>}

RECURSIVE LineLists(_)
LineLists(n) ==
  IF n = 0 THEN {<<>>}
  ELSE LineLists(n - 1)
         \cup {Append(l, x) : l \in {y \in LineLists(n - 1) : Len(y) = n - 1},
                              x \in FollowingLines}

\* messages whose E) line is followed by up to MaxFollowingLines lines
ContinuedMessages ==
  {NotamMessage(<<<<"A", "1", "2", "3", "4", "/", "2", "6", " ", "N", "O", "T", "A", "M", "N">>, <<"A", ")", " ", "O", "O", "S", "A">>, <<"E", ")", " ", "R", "W", "Y", " ", "C", "L", "S", "D">>>> \o l) :
     l \in LineLists(MaxFollowingLines)}

NotamInputs == SectionChoices \cup DatedMessages \cup IdentifiedMessages \cup ContinuedMessages

NextNotam ==
  \/ \E raw \in NotamInputs : DecodeNotam(raw, decodeNotam(raw))
  \/ Return

SpecNotam == Init /\ [][NextNotam]_vars

(***************************************************************************)
(* Properties of decodeNotam                                               *)
(***************************************************************************)
\* the lines of the input as decodeNotam reads them
InputLines == NotamLines(input)

\* the input has a line that starts with tag
HasLine(tag) == \E k \in 1..Len(InputLines) : StartsWith(InputLines[k], tag)

\* the input has a line that holds a NOTAM identifier
HasIdentifierLine == \E k \in 1..Len(InputLines) : Test(NotamIdRe, InputLines[k])

\* the input has a Q) line of at least 8 parts
HasFullQLine ==
  \E k \in 1..Len(InputLines) :
    /\ StartsWith(InputLines[k], <<"Q", ")">>)
    /\ Cardinality({j \in 1..Len(InputLines[k]) : InputLines[k][j] = "/"}) >= 7

NotamFields ==
  {"id", "series", "number", "year", "type", "typeLabel", "qLine", "location",
   "validFrom", "validFromFormatted", "validTo", "validToFormatted", "schedule",
   "rawText", "decodedText", "lowerAlt", "upperAlt", "category", "categoryLabel",
   "conditionLabel"}

\* the fields named are all the empty string
AllEmpty(record, fields) == \A f \in fields : record[f] = <<>>

\* C12: decodeNotam returns a record for every input; the fields of a line
\* that is absent from the input are the empty string (identifier, A), B),
\* C), D) and E) lines), and qLine is null when no Q) line has 8 parts.
C12_AbsentSectionsAreEmpty ==
  Returned("decodeNotam") =>
    /\ DOMAIN result = NotamFields
    /\ ~HasIdentifierLine =>
         AllEmpty(result, {"id", "series", "number", "year", "type", "typeLabel"})
    /\ ~HasLine(<<"A", ")">>) => result.location = <<>>
    /\ ~HasLine(<<"B", ")">>) => AllEmpty(result, {"validFrom", "validFromFormatted"})
    /\ ~HasLine(<<"C", ")">>) => AllEmpty(result, {"validTo", "validToFormatted"})
    /\ ~HasLine(<<"D", ")">>) => result.schedule = <<>>
    /\ ~HasLine(<<"E", ")">>) => AllEmpty(result, {"rawText", "decodedText"})
    /\ ~HasFullQLine => result.qLine = Null

\* a message with an identifier, a location, a schedule and a Q) line of 7
\* parts only: qLine is null, the sections it lacks are empty, and those it
\* has are decoded
C12_Witness ==
  /\ Returned("decodeNotam")
  /\ HasLine(<<"Q", ")">>) /\ ~HasFullQLine /\ result.qLine = Null
  /\ ~HasLine(<<"B", ")">>) /\ result.validFromFormatted = <<>>
  /\ ~HasLine(<<"E", ")">>) /\ result.decodedText = <<>>
  /\ HasLine(<<"D", ")">>) /\ result.location = <<"O", "O", "S", "A">>
  /\ result.id = <<"C", "1", "2", "3", "4", "/", "2", "6">>

\* the value of the line of the input that starts with tag
LineValue(tag) ==
  LET k == CHOOSE j \in 1..Len(InputLines) : StartsWith(InputLines[j], tag)
  IN  Trim(SubSeq(InputLines[k], Len(tag) + 1, Len(InputLines[k])))

\* the name of the month written mm
MonthOf(mm) ==
  CASE mm = <<"0", "1">> -> <<"J", "a", "n">> [] mm = <<"0", "2">> -> <<"F", "e", "b">> [] mm = <<"0", "3">> -> <<"M", "a", "r">>
    [] mm = <<"0", "4">> -> <<"A", "p", "r">> [] mm = <<"0", "5">> -> <<"M", "a", "y">> [] mm = <<"0", "6">> -> <<"J", "u", "n">>
    [] mm = <<"0", "7">> -> <<"J", "u", "l">> [] mm = <<"0", "8">> -> <<"A", "u", "g">> [] mm = <<"0", "9">> -> <<"S", "e", "p">>
    [] mm = <<"1", "0">> -> <<"O", "c", "t">> [] mm = <<"1", "1">> -> <<"N", "o", "v">> [] mm = <<"1", "2">> -> <<"D", "e", "c">>

\* v is a group YYMMDDHHMM of ten digits with a month from 01 to 12
IsDateGroup(v) ==
  /\ Len(v) = 10
  /\ \A j \in 1..10 : v[j] \in Digit
  /\ SubSeq(v, 3, 4) \in {TwoDigits(n) : n \in 1..12}

\* "DD Mon 20YY HH:MM UTC" for the group v
DateAsClaimed(v) ==
  SubSeq(v, 5, 6) \o <<" ">> \o MonthOf(SubSeq(v, 3, 4)) \o <<" ", "2", "0">> \o SubSeq(v, 1, 2)
    \o <<" ">> \o SubSeq(v, 7, 8) \o <<":">> \o SubSeq(v, 9, 10) \o <<" ", "U", "T", "C">>

\* the formatted form of the value v, as the claim gives it (for the values
\* the claim speaks of)
FormattedAsClaimed(v, formatted) ==
  /\ IsDateGroup(v) => formatted = DateAsClaimed(v)
  /\ v = <<"2", "6", "0", "2", "1", "5", "1", "2", "0", "0">> => Includes(formatted, <<"1", "5", " ", "F", "e", "b", " ", "2", "0", "2", "6">>)
  /\ v = <<"P", "E", "R", "M">> => formatted = <<"P", "e", "r", "m", "a", "n", "e", "n", "t">>
  /\ v = <<"U", "F", "N">> => formatted = <<"U", "n", "t", "i", "l", " ", "F", "u", "r", "t", "h", "e", "r", " ", "N", "o", "t", "i", "c", "e">>
  /\ v = <<"E", "S", "T">> => formatted = <<"E", "s", "t", "i", "m", "a", "t", "e", "d">>

\* C13: a B) or C) value that is a group YYMMDDHHMM of ten digits with month
\* 01..12 is formatted as "DD Mon 20YY HH:MM UTC", PERM, UFN and EST as
\* "Permanent", "Until Further Notice" and "Estimated", and an absent value
\* as the empty string.
C13_DateGroupsAreFormatted ==
  Returned("decodeNotam") =>
    /\ IF HasLine(<<"B", ")">>)
       THEN /\ result.validFrom = LineValue(<<"B", ")">>)
            /\ FormattedAsClaimed(result.validFrom, result.validFromFormatted)
       ELSE result.validFromFormatted = <<>>
    /\ IF HasLine(<<"C", ")">>)
       THEN /\ result.validTo = LineValue(<<"C", ")">>)
            /\ FormattedAsClaimed(result.validTo, result.validToFormatted)
       ELSE result.validToFormatted = <<>>

\* a date-time group of December decoded in the C) line of a message
\* without a B) line
C13_Witness ==
  /\ Returned("decodeNotam")
  /\ ~HasLine(<<"B", ")">>) /\ result.validFromFormatted = <<>>
  /\ result.validTo = <<"2", "6", "1", "2", "1", "5", "1", "2", "0", "0">>
  /\ result.validToFormatted = <<"1", "5", " ", "D", "e", "c", " ", "2", "0", "2", "6", " ", "1", "2", ":", "0", "0", " ", "U", "T", "C">>

\* the identifier pattern at the start of a line
IdLineRe == <<Bol>> \o NotamIdRe

\* the match of the identifier pattern with the first line of the input
FirstLineId == Match(IdLineRe, InputLines[1])

\* C14: when the first line is series letter + 4-digit number + "/" + 2-digit
\* year followed by NOTAMN, NOTAMR or NOTAMC, decodeNotam returns the id,
\* type and type label of that line, whatever the later lines hold, and the
\* trimmed text of the A) line as location.
C14_IdentifierOfFirstLineIsKept ==
  (Returned("decodeNotam") /\ FirstLineId.ok) =>
    LET line == InputLines[1]
        type == Group(FirstLineId, line, 4)
    IN  /\ result.id = Group(FirstLineId, line, 1) \o Group(FirstLineId, line, 2)
                         \o <<"/">> \o Group(FirstLineId, line, 3)
        /\ result.type = type
        /\ type = <<"N", "O", "T", "A", "M", "N">> => result.typeLabel = <<"N", "e", "w", " ", "N", "O", "T", "A", "M">>
        /\ type = <<"N", "O", "T", "A", "M", "R">> => result.typeLabel = <<"R", "e", "p", "l", "a", "c", "e", "m", "e", "n", "t", " ", "N", "O", "T", "A", "M">>
        /\ type = <<"N", "O", "T", "A", "M", "C">> => result.typeLabel = <<"C", "a", "n", "c", "e", "l", "l", "a", "t", "i", "o", "n", " ", "N", "O", "T", "A", "M">>
        /\ HasLine(<<"A", ")">>) => result.location = LineValue(<<"A", ")">>)

\* is the line the start of a lettered section
IsSectionLine(line) == Test(SectionRe, line)

\* the lines of the E) body: the E) line and the lines that follow it up to
\* the next lettered section or the end of the message
BodyLines ==
  LET e == CHOOSE k \in 1..Len(InputLines) : StartsWith(InputLines[k], <<"E", ")">>)
      stops == {k \in (e + 1)..Len(InputLines) : IsSectionLine(InputLines[k])}
      last == IF stops = {} THEN Len(InputLines) ELSE SetMin(stops) - 1
  IN  <<Trim(SubSeq(InputLines[e], 3, Len(InputLines[e])))>> \o SubSeq(InputLines, e + 1, last)

\* text without its final closing parenthesis
WithoutClosingParen(text) ==
  Trim(IF text # <<>> /\ text[Len(text)] = ")" THEN SubSeq(text, 1, Len(text) - 1) ELSE text)

\* C18: the E) text is the E) line and every following line up to the next
\* lettered section or the end of the message, the last one that ends with
\* the closing ")" included, joined by single spaces, with only the final
\* ")" removed.
C18_ContinuationLinesAreAppended ==
  (Returned("decodeNotam") /\ HasLine(<<"E", ")">>)) =>
    result.rawText = WithoutClosingParen(Join(BodyLines, <<" ">>))

(***************************************************************************)
(* Properties of the equipment carried by the Field 9 block                *)
(***************************************************************************)
\* C15: for a flight plan whose Field 9 block is "TYPE/WAKE-EQUIPMENT",
\* validateFPL runs the Field 10 validator on the equipment: the Field 10
\* findings of the result are those of validateField10 for the equipment, so
\* a code that is in no table gets a Field 10 warning, whichever pattern of
\* validateField9 matched.
C15_AttachedEquipmentIsValidated ==
  (Parsed /\ EquipmentOf(result.parsed.field9) # <<>>) =>
    LET equipment == EquipmentOf(result.parsed.field9)
        halves == SplitChar(equipment, "/")
        unknown == \/ Tokenize(EQUIPMENT_COM_NAV, PartOrEmpty(halves, 0)).invalid # <<>>
                   \/ Tokenize(EQUIPMENT_SSR, PartOrEmpty(halves, 1)).invalid # <<>>
    IN  /\ FindingsFor(result.results, "Field 10") = validateField10(equipment)
        /\ unknown => HasFinding(result.results, "Field 10", "warning")

\* some finding of results carries the field, the severity and the message
HasFindingWith(results, field, severity, message) ==
  \E k \in 1..Len(results) :
    /\ results[k].field = field
    /\ results[k].severity = severity
    /\ results[k].message = message

\* C16: a flight plan with flight rules I whose equipment declares N in the
\* COM/NAV half gets the Cross-check error for IFR without equipment, also
\* when the equipment is attached to the Field 9 block.
C16_IfrWithoutEquipmentIsCrossCheckError ==
  (/\ Parsed
   /\ StartsWith(result.parsed.field8, <<"I">>)
   /\ SplitChar(EquipmentOf(result.parsed.field9), "/")[1] = <<"N">>) =>
     HasFindingWith(result.results, "Cross-check", "error",
                    <<"IFR flight rules but no COM/NAV equipment (Field 10 = N)">>)

(***************************************************************************)
(* Properties of the Field 18 text that belongs to no known prefix         *)
(***************************************************************************)
\* the word starts with a prefix of the prefix table
StartsWithKnownPrefix(word) ==
  \E k \in 1..Len(FIELD18_PREFIXES) : StartsWith(word, FIELD18_PREFIXES[k].key)

\* the words of a Field 18 text that belong to no known prefix: the words
\* before the first item with a known prefix, and the items "prefix/value"
\* whose prefix is not in the table
UnknownWords(text) ==
  LET words == SelectSeq(SplitChar(text, " "), LAMBDA w : w # <<>>)
      known == {k \in 1..Len(words) : StartsWithKnownPrefix(words[k])}
  IN  {words[k] : k \in {j \in 1..Len(words) :
                           /\ ~StartsWithKnownPrefix(words[j])
                           /\ \/ \A i \in known : j < i
                              \/ Includes(words[j], <<"/">>)}}

\* the prefix of an item "prefix/value", without the stroke (the word
\* itself when it has no stroke)
PrefixOf(word) ==
  IF Includes(word, <<"/">>) THEN SubSeq(word, 1, IndexOf(word, <<"/">>, 0)) ELSE word

\* some finding of results has the word in its message
Mentions(results, word) ==
  \E k \in 1..Len(results) : Includes(results[k].message, word)

\* the text that was not recognized is no key of the map and is reported
UnknownWordsAreReported(text, field18, results) ==
  \A w \in UnknownWords(text) :
    /\ ~HasKey(field18, PrefixOf(w))
    /\ Mentions(results, w)

\* C19: Field 18 text that belongs to no known prefix (words before the
\* first known prefix, items with an unknown prefix) is no key of the
\* Field 18 map, and each such word is reported by a finding of
\* validateField18Only and of validateFPL.
C19_UnknownItemsAreReported ==
  /\ Returned("validateField18Only") =>
       UnknownWordsAreReported(input, parseField18(input), result)
  /\ (Parsed /\ result.parsed.field18 # <<"0">>) =>
       UnknownWordsAreReported(result.parsed.field18, result.field18Parsed, result.results)

(***************************************************************************)
(* validateField9 as a state machine, and the Field 9 blocks submitted     *)
(***************************************************************************)
\* validateField9 is called on field9 and returns returned
ValidateField9(field9, returned) ==
  /\ pc = "idle"
  /\ pc' = "done" /\ call' = "validateField9" /\ input' = field9 /\ result' = returned
  /\ UNCHANGED <<sessions, tables>>

\* aircraft types of each wake category of the table, and one unknown type
InputTypes == {<<"C", "1", "7", "2">>, <<"B", "7", "3", "8">>, <<"B", "7", "4", "4">>, <<"A", "3", "8", "8">>, <<"Z", "Z", "Z", "Z">>}

\* no number of aircraft, a number, and three digits (which only the second
\* pattern of validateField9 parses); each type with each wake category,
\* alone and with the equipment attached
Field9Inputs ==
  {num \o type \o <<"/">> \o <<wake>> \o equipment :
     num \in {<<>>, <<"2">>, <<"0", "1", "2">>}, type \in InputTypes, wake \in WakeLetters,
     equipment \in {<<>>, <<"-", "S", "R", "/", "C">>}}

NextField9 ==
  \/ \E field9 \in Field9Inputs : ValidateField9(field9, validateField9(field9))
  \/ Return

SpecField9 == Init /\ [][NextField9]_vars

\* the aircraft type and the wake category of a Field 9, as the pattern of
\* validateField9 that parses it reads them
DeclaredType(field9) ==
  IF Match(Field9Re, field9).ok THEN Group(Match(Field9Re, field9), field9, 2)
  ELSE Group(Match(Field9AltRe, field9), field9, 1)

DeclaredWake(field9) ==
  IF Match(Field9Re, field9).ok THEN Group(Match(Field9Re, field9), field9, 3)
  ELSE Group(Match(Field9AltRe, field9), field9, 2)

\* some finding of results has the severity
HasSeverity(results, severity) == \E k \in 1..Len(results) : results[k].severity = severity

\* C17: when the aircraft type is in the type table and the declared wake
\* category differs from the table's, validateField9 emits a Field 9 warning
\* and no error, whichever pattern parsed the field; a type that is not in
\* the table gets an info finding and no error.
C17_WakeMismatchIsWarning ==
  Returned("validateField9") =>
    IF Has(AIRCRAFT_TYPES, DeclaredType(input))
    THEN Entry(AIRCRAFT_TYPES, DeclaredType(input)).wake # DeclaredWake(input) =>
           /\ HasFinding(result, "Field 9", "warning")
           /\ ~HasSeverity(result, "error")
    ELSE /\ HasFinding(result, "Field 9", "info")
         /\ ~HasSeverity(result, "error")

(***************************************************************************)
(* validateField10 as a state machine, and the equipment submitted         *)
(***************************************************************************)
\* validateField10 is called on equipment and returns returned
ValidateField10(equipment, returned) ==
  /\ pc = "idle"
  /\ pc' = "done" /\ call' = "validateField10" /\ input' = equipment /\ result' = returned
  /\ UNCHANGED <<sessions, tables>>

\* COM/NAV halves with no, one, two and three characters that match no code
\* (Q, 9 and E without its digit)
ComNavHalves ==
  {<<>>, <<"N">>, <<"S">>, <<"S", "D", "E", "2", "G", "R">>, <<"S", "Q">>, <<"Q">>, <<"S", "Q", "9">>, <<"Q", "9">>, <<"E", "1", "E">>, <<"Q", "E", "9">>}

\* no SSR half, and SSR halves with no, one and two characters that match
\* no code (Q and D without its digit)
SsrHalves ==
  {<<>>} \cup {<<"/">> \o h :
                 h \in {<<>>, <<"N">>, <<"C">>, <<"L", "B", "1">>, <<"Q">>, <<"C", "Q">>, <<"Q", "D">>, <<"B", "1", "Q", "D", "1", "D">>, <<"D", "1">>, <<"Q", "Q">>}}

Field10Inputs == {c \o s : c \in ComNavHalves, s \in SsrHalves}

NextField10 ==
  \/ \E equipment \in Field10Inputs :
       ValidateField10(equipment, validateField10(equipment))
  \/ Return

SpecField10 == Init /\ [][NextField10]_vars

\* the number of warnings of results about unknown codes of the kind
UnknownCodeWarnings(results, kind) ==
  Len(SelectSeq(results, LAMBDA r : /\ r.severity = "warning"
                                    /\ r.message[1] = kind))

\* the number of characters of a half that match no code of the table
Unmatched(table, half) ==
  IF half = <<"N">> THEN 0 ELSE Len(Tokenize(table, half).invalid)

\* C20: every character of an equipment half that matches no COM/NAV (resp.
\* SSR) code is reported by a warning of its own: a half with k such
\* characters gets k "unknown code" warnings.
C20_OneWarningPerUnknownCode ==
  Returned("validateField10") =>
    LET halves == SplitChar(input, "/")
    IN  /\ UnknownCodeWarnings(result, "Unknown COM/NAV codes: ")
             = Unmatched(EQUIPMENT_COM_NAV, PartOrEmpty(halves, 0))
        /\ UnknownCodeWarnings(result, "Unknown SSR codes: ")
             = Unmatched(EQUIPMENT_SSR, PartOrEmpty(halves, 1))

(***************************************************************************)
(* validateField16 on its own                                              *)
(***************************************************************************)
\* validateField16 is called on field16 and returns returned
ValidateField16(field16, returned) ==
  /\ pc = "idle"
  /\ pc' = "done" /\ call' = "validateField16" /\ input' = field16 /\ result' = returned
  /\ UNCHANGED <<sessions, tables>>

\* the groups submitted as Field 13, read as destination and EET, the EET
\* 0199, and groups followed by alternates
Field16Inputs ==
  Field13Inputs
  \cup {<<"O", "O", "S", "A", "0", "1", "9", "9">>, <<"O", "O", "S", "A", "0", "1", "4", "5", " ", "O", "O", "M", "S">>, <<"O", "O", "S", "A", "0", "1", "9", "9", " ", "O", "O", "M", "S">>, <<"O", "O", "S", "A", "2", "4", "6", "0", " ", "O", "O", "M", "S", " ", "O", "M", "D", "B">>, <<"O", "1", "S", "A", "0", "1", "4", "5", " ", "O", "O", "M", "S">>}

NextField16 ==
  \/ \E field16 \in Field16Inputs : ValidateField16(field16, validateField16(field16))
  \/ Return

SpecField16 == Init /\ [][NextField16]_vars

\* the 8 leading characters of the input
LeadingGroup == Substring(input, 0, 8)

\* the code is not four letters, the time is not four digits, or its hour
\* exceeds 23 or its minutes exceed 59
GroupIsInvalid(group) ==
  \/ Len(group) < 8
  \/ \E j \in 1..4 : ToUpperCase(group)[j] \notin Upper
  \/ \E j \in 5..8 : group[j] \notin Digit
  \/ 10 * DigitVal(group[5]) + DigitVal(group[6]) > 23
  \/ 10 * DigitVal(group[7]) + DigitVal(group[8]) > 59

\* C21: validateField16 reports an error for the destination and EET
\* exactly when validateField13 reports one for the same 8 leading
\* characters, that is when the code is not four letters, the time is not
\* four digits, or the hour exceeds 23 or the minutes exceed 59 (as in the
\* EET 0199).
C21_Field16ErrorsAsField13 ==
  Returned("validateField16") =>
    /\ HasSeverity(result, "error") <=> HasSeverity(validateField13(LeadingGroup), "error")
    /\ HasSeverity(result, "error") <=> GroupIsInvalid(LeadingGroup)
    /\ LeadingGroup = <<"O", "O", "S", "A", "0", "1", "9", "9">> => HasSeverity(result, "error")

(***************************************************************************)
(* decodeNotamText step by step: result holds the local decoded between    *)
(* the statements of the function                                          *)
(***************************************************************************)
\* let decoded = text
StartDecoding(text) ==
  /\ pc = "idle"
  /\ pc' = "expanding" /\ call' = "decodeNotamText" /\ input' = text /\ result' = text
  /\ UNCHANGED <<sessions, tables>>

\* the loop over the sorted abbreviations leaves expanded in decoded
ExpandGeneric(expanded) ==
  /\ pc = "expanding"
  /\ pc' = "rewriting" /\ result' = expanded
  /\ UNCHANGED <<call, input, sessions, tables>>

\* the replacements of runway numbers leave rewritten in decoded
RewriteRunwayNumbers(rewritten) ==
  /\ pc = "rewriting"
  /\ pc' = "cleaning" /\ result' = rewritten
  /\ UNCHANGED <<call, input, sessions, tables>>

\* the clean-up of spaces leaves cleaned, which is returned
CleanUpAndReturn(cleaned) ==
  /\ pc = "cleaning"
  /\ pc' = "done" /\ result' = cleaned
  /\ UNCHANGED <<call, input, sessions, tables>>

\* runway identifiers of one and of two designators, with and without
\* spaces around the stroke, spelled RWY, rwy and Rwy, alone, after an
\* abbreviation and before one
RunwayTexts ==
  {before \o rwy \o <<" ">> \o designators \o after :
     before \in {<<>>, <<"I", "L", "S", " ">>},
     rwy \in {<<"R", "W", "Y">>, <<"r", "w", "y">>, <<"R", "w", "y">>},
     designators \in {<<"0", "7">>, <<"0", "7", "L">>, <<"0", "7", "/", "2", "5">>, <<"0", "7", " ", "/", " ", "2", "5">>, <<"0", "7", "L", "/", "2", "5", "R">>, <<"C", "L", "S", "D">>},
     after \in {<<>>, <<" ", "C", "L", "S", "D">>}}

NextDecodeSteps ==
  \/ \E text \in RunwayTexts : StartDecoding(text)
  \/ ExpandGeneric(ExpandAbbreviations(SortedAbbreviations, result))
  \/ RewriteRunwayNumbers(RewriteRunways(result))
  \/ CleanUpAndReturn(CleanUpSpaces(result))
  \/ Return

SpecDecodeSteps == Init /\ [][NextDecodeSteps]_vars

\* the text holds the RWY token of a runway identifier
HoldsRunwayToken(text) == Test(RunwayRe, text)

\* the generic expansion runs in this step
GenericExpansionRuns == pc = "expanding" /\ pc' = "rewriting"

\* the text returned is the one that the rewrite followed by the expansion
\* gives
ReturnedAsRewriteThenExpansion ==
  Returned("decodeNotamText") =>
    result = CleanUpSpaces(ExpandAbbreviations(SortedAbbreviations, RewriteRunways(input)))

\* C22: decodeNotamText applies the runway rewrite before the generic
\* abbreviation expansion runs: when the expansion runs, the text it is
\* given holds no RWY token of a runway identifier, and the text returned
\* is the one that the rewrite followed by the expansion gives.
C22_RunwayRewriteBeforeExpansion ==
  /\ [][GenericExpansionRuns => ~HoldsRunwayToken(result)]_vars
  /\ []ReturnedAsRewriteThenExpansion

(***************************************************************************)
(* Recommended items of Field 18                                           *)
(***************************************************************************)
\* the message that recommends the item of the key (REG or DOF)
Recommendation(key) ==
  IF key = KeyREG THEN <<"REG/ (registration) is recommended for Oman FIR operations">>
  ELSE <<"DOF/ (date of flight) is recommended">>

\* the findings of results that recommend the item of the key
Recommending(results, key) == SelectSeq(results, LAMBDA r : r.message = Recommendation(key))

\* a warning, and no finding of another severity, recommends the item when
\* the map has no entry for it, and no finding does when it has
RecommendedWhenAbsent(field18, results, key) ==
  LET found == Recommending(results, key)
  IN  /\ \A k \in 1..Len(found) : found[k].severity = "warning"
      /\ ~HasKey(field18, key) => Len(found) >= 1
      /\ HasKey(field18, key) => Len(found) = 0

\* C23: whenever the Field 18 map built for a run has no REG entry (no DOF
\* entry), validateField18Parsed emits a warning, never an error, that
\* recommends REG/ (DOF/), also when the map is empty; it emits no such
\* warning when the entry is present.
C23_MissingRegAndDofAreWarnings ==
  /\ Returned("validateField18Only") =>
       /\ RecommendedWhenAbsent(parseField18(input), result, KeyREG)
       /\ RecommendedWhenAbsent(parseField18(input), result, KeyDOF)
  /\ Parsed =>
       /\ RecommendedWhenAbsent(result.field18Parsed, result.results, KeyREG)
       /\ RecommendedWhenAbsent(result.field18Parsed, result.results, KeyDOF)

(***************************************************************************)
(* parseFPL on its own                                                     *)
(***************************************************************************)
\* parseFPL is called on raw and returns returned
ParseFPL(raw, returned) ==
  /\ pc = "idle"
  /\ pc' = "done" /\ call' = "parseFPL" /\ input' = raw /\ result' = returned
  /\ UNCHANGED <<sessions, tables>>

\* the groups of a flight plan in the order of the message, the equipment
\* joined to the aircraft type by a hyphen: callsign, rules and type,
\* aircraft, equipment, departure and EOBT, route, destination and EET with
\* an alternate, other information, supplementary information
MessageGroups ==
  <<<<"O", "M", "A", "1", "2", "3">>, <<"I", "S">>, <<"B", "7", "3", "8", "/", "M">>, <<"S", "R", "/", "C">>, <<"O", "M", "D", "B", "1", "2", "0", "0">>, <<"N", "0", "4", "5", "0", "F", "3", "6", "0", " ", "D", "C", "T">>,
    <<"O", "O", "S", "A", "0", "1", "4", "5", " ", "O", "O", "M", "S">>, <<"D", "O", "F", "/", "2", "6", "0", "2", "1", "5">>, <<"E", "/", "0", "3", "0", "0">>>>

\* the first n groups, with an empty group after the first one when gap
GroupsUpTo(n, gap) ==
  IF gap /\ n >= 1
  THEN <<MessageGroups[1], <<>>>> \o SubSeq(MessageGroups, 2, n)
  ELSE SubSeq(MessageGroups, 1, n)

\* SAMPLE_FLIGHT_PLANS[2].fpl
SampleFlightPlan ==
  <<"(", "F", "P", "L", "-", "A", "B", "Y", "7", "8", "9", "-", "I", "S", "\n", "-", "A", "3", "2", "0", "/", "M", "-", "S", "D", "E", "2", "E", "3", "F", "G", "H", "I", "J", "1", "J", "3", "J", "5", "M", "1", "R", "W", "Y", "/", "L", "B", "1", "D", "1", "\n", "-", "O", "M", "S", "J", "1", "4", "0", "0", "\n", "-", "N", "0", "4", "2", "0", "F", "3", "4", "0", " ", "D", "C", "T", "\n", "-", "O", "O", "S", "A", "0", "2", "0", "0", " ", "O", "O", "M", "S", "\n", "-", "P", "B", "N", "/", "A", "1", "B", "2", " ", "N", "A", "V", "/", "S", "B", "A", "S", " ", "C", "O", "M", "/", "T", "C", "A", "S", " ", "D", "O", "F", "/", "2", "6", "0", "2", "1", "5", " ", "R", "E", "G", "/", "A", "6", "A", "E", "E", " ", "E", "E", "T", "/", "O", "O", "M", "M", "0", "1", "0", "0", " ", "O", "P", "R", "/", "A", "B", "Y", " ", "P", "E", "R", "/", "C", " ", "A", "L", "T", "N", "/", "O", "O", "M", "S", ")">>

\* the sample without its last group
SampleWithoutField18 ==
  <<"(", "F", "P", "L", "-", "A", "B", "Y", "7", "8", "9", "-", "I", "S", "\n", "-", "A", "3", "2", "0", "/", "M", "-", "S", "D", "E", "2", "E", "3", "F", "G", "H", "I", "J", "1", "J", "3", "J", "5", "M", "1", "R", "W", "Y", "/", "L", "B", "1", "D", "1", "\n", "-", "O", "M", "S", "J", "1", "4", "0", "0", "\n", "-", "N", "0", "4", "2", "0", "F", "3", "4", "0", " ", "D", "C", "T", "\n", "-", "O", "O", "S", "A", "0", "2", "0", "0", " ", "O", "O", "M", "S", ")">>

\* messages of none to all of the groups, complete ones and ones cut short,
\* with and without the parentheses and spaces around the hyphens; a sample
\* flight plan of the code, whole and without its last group
ParseInputs ==
  {head \o Join(GroupsUpTo(n, gap), sep) \o tail :
     head \in {<<"(", "F", "P", "L", "-">>, <<"F", "P", "L", "-">>, <<"(", "F", "P", "L", " ", "-", " ">>},
     n \in 0..Len(MessageGroups),
     gap \in BOOLEAN,
     sep \in {<<"-">>, <<" ", "-", " ">>},
     tail \in {<<>>, <<")">>}}
  \cup {SampleFlightPlan, SampleWithoutField18}

NextParse ==
  \/ \E raw \in ParseInputs : ParseFPL(raw, parseFPL(raw))
  \/ Return

SpecParse == Init /\ [][NextParse]_vars

\* s without a leading "(FPL" or "FPL"
WithoutHead(s) ==
  IF StartsWith(s, <<"(", "F", "P", "L">>) THEN SubstringFrom(s, 4)
  ELSE IF StartsWith(s, <<"F", "P", "L">>) THEN SubstringFrom(s, 3)
  ELSE s

\* s without a trailing ")"
WithoutTail(s) == IF EndsWith(s, <<")">>) THEN Substring(s, 0, Len(s) - 1) ELSE s

\* the non-empty hyphen-separated parts that remain of the message
RemainingParts(raw) ==
  LET split == SplitChar(WithoutTail(WithoutHead(CleanFpl(raw))), "-")
  IN  SelectSeq([k \in 1..Len(split) |-> Trim(split[k])], LAMBDA part : part # <<>>)

\* C24: parseFPL returns what the strict pattern extracts when that pattern
\* matches; when it fails, the lenient split is accepted if and only if at
\* least 6 non-empty hyphen-separated parts remain after the removal of the
\* leading "(FPL-" and of the trailing ")", and parseFPL returns null
\* otherwise.
C24_LenientSplitNeedsSixParts ==
  Returned("parseFPL") =>
    /\ StrictMatches(input) =>
         result = StrictParse(CleanFpl(input), Match(StrictFplRe, CleanFpl(input)))
    /\ ~StrictMatches(input) =>
         /\ result # Null <=> Len(RemainingParts(input)) >= 6
         /\ result # Null =>
              /\ result.field3 = <<"F", "P", "L">>
              /\ \A k \in 1..6 :
                   <<result.field7, result.field8, result.field9, result.field13,
                     result.field15, result.field16>>[k] = RemainingParts(input)[k]
         /\ Len(RemainingParts(input)) < 6 => result = Null

\* a message that the strict pattern rejects, with an empty part and
\* exactly 6 non-empty ones, has been parsed by the lenient split
C24_Witness ==
  /\ Returned("parseFPL") /\ ~StrictMatches(input)
  /\ Includes(input, <<"-", "-">>)
  /\ Len(RemainingParts(input)) = 6
  /\ result # Null /\ result.field16 = <<"N", "0", "4", "5", "0", "F", "3", "6", "0", " ", "D", "C", "T">>

(***************************************************************************)
(* validateField10 step by step: between the statements of the function,   *)
(* result holds its frame, a sequence of one record of locals: the         *)
(* findings pushed so far (results), the index i and the two lists of      *)
(* codes of the loop that is running                                       *)
(***************************************************************************)
\* parts[0] || ""
ComNavOf(equipment) == PartOrEmpty(SplitChar(equipment, "/"), 0)

\* parts[1] || ""
SsrOf(equipment) == PartOrEmpty(SplitChar(equipment, "/"), 1)

\* the frame before a tokenizer loop starts
LoopStart(results) == <<[results |-> results, i |-> 0, valid |-> <<>>, invalid |-> <<>>]>>

\* the locals of the running call
Locals == result[1]

\* the findings pushed after a tokenizer loop
CodeFindings(st, label, unknownLabel) ==
  When(Len(st.valid) > 0,
       Finding("Field 10", "success", <<label>> \o Join(st.valid, <<", ">>)))
  \o When(Len(st.invalid) > 0,
          Finding("Field 10", "warning", <<unknownLabel>> \o Join(st.invalid, <<", ">>)))

\* validateField10 is entered: an empty equipment returns at once
EnterField10(equipment) ==
  /\ pc = "idle"
  /\ call' = "validateField10" /\ input' = equipment
  /\ IF equipment = <<>>
     THEN /\ pc' = "done"
          /\ result' = <<Finding("Field 10", "warning", <<"Equipment field is empty">>)>>
     ELSE /\ pc' = "comNav"
          /\ result' = LoopStart(<<>>)
  /\ UNCHANGED <<sessions, tables>>

\* one pass of the loop over comNav
ComNavStep(after) ==
  /\ pc = "comNav"
  /\ ComNavOf(input) # <<"N">> /\ Locals.i < Len(ComNavOf(input))
  /\ result' = <<after>>
  /\ UNCHANGED <<pc, call, input, sessions, tables>>

\* the COM/NAV findings are pushed (or the loop is skipped for N and for an
\* empty half)
ComNavDone ==
  /\ pc = "comNav"
  /\ ComNavOf(input) = <<"N">> \/ Locals.i >= Len(ComNavOf(input))
  /\ pc' = "ssr"
  /\ result' = LoopStart(IF ComNavOf(input) = <<"N">>
                         THEN <<Finding("Field 10", "info", <<"No COM/NAV equipment">>)>>
                         ELSE CodeFindings(Locals, "COM/NAV: ", "Unknown COM/NAV codes: "))
  /\ UNCHANGED <<call, input, sessions, tables>>

\* one pass of the loop over ssr
SsrStep(after) ==
  /\ pc = "ssr"
  /\ SsrOf(input) # <<"N">> /\ Locals.i < Len(SsrOf(input))
  /\ result' = <<after>>
  /\ UNCHANGED <<pc, call, input, sessions, tables>>

\* the SSR findings are pushed and the findings are returned
SsrDone ==
  /\ pc = "ssr"
  /\ SsrOf(input) = <<"N">> \/ Locals.i >= Len(SsrOf(input))
  /\ pc' = "done"
  /\ result' = Locals.results
                 \o (IF SsrOf(input) = <<"N">>
                     THEN <<Finding("Field 10", "warning", <<"No surveillance equipment declared">>)>>
                     ELSE CodeFindings(Locals, "SSR: ", "Unknown SSR codes: "))
  /\ UNCHANGED <<call, input, sessions, tables>>

NextTokenizer ==
  \/ \E equipment \in Field10Inputs : EnterField10(equipment)
  \/ ComNavStep(TokenStep(EQUIPMENT_COM_NAV, ComNavOf(input), Locals))
  \/ ComNavDone
  \/ SsrStep(TokenStep(EQUIPMENT_SSR, SsrOf(input), Locals))
  \/ SsrDone
  \/ Return

\* a call that has started goes on: nothing but its own statements stands
\* between two statements of a function
SpecTokenizer == Init /\ [][NextTokenizer]_vars /\ WF_vars(NextTokenizer)

\* a tokenizer loop is running
InLoop == pc \in {"comNav", "ssr"}

\* the half that the running loop reads, and its table
HalfRead == IF pc = "comNav" THEN ComNavOf(input) ELSE SsrOf(input)

TableRead == IF pc = "comNav" THEN EQUIPMENT_COM_NAV ELSE EQUIPMENT_SSR

\* the token at position i (0-based) of the half: the two-character code
\* when it is in the table, the one character otherwise
TokenAt(table, half, i) ==
  IF i + 2 <= Len(half) /\ Has(table, Substring(half, i, i + 2))
  THEN Substring(half, i, i + 2)
  ELSE Substring(half, i, i + 1)

\* the characters of the tokens taken so far
CharsTaken(st) ==
  Len(Flatten(st.valid, 1, Len(st.valid))) + Len(Flatten(st.invalid, 1, Len(st.invalid)))

\* a pass of a loop takes the token at its position: the characters from
\* the position on, up to the next position, in the list of the codes when
\* the token is in the table and in the list of the unknown ones otherwise
PassTakesOneToken ==
  (InLoop /\ pc' = pc) =>
    LET token == TokenAt(TableRead, HalfRead, Locals.i)
    IN  /\ Locals'.i > Locals.i
        /\ Substring(HalfRead, Locals.i, Locals'.i) = token
        /\ IF Has(TableRead, token)
           THEN Locals'.valid = Append(Locals.valid, token) /\ Locals'.invalid = Locals.invalid
           ELSE Locals'.invalid = Append(Locals.invalid, token) /\ Locals'.valid = Locals.valid
        /\ Locals'.results = Locals.results

\* the tokens taken so far are the characters before the position
TokensCoverWhatWasRead ==
  InLoop => CharsTaken(Locals) = IF Locals.i > Len(HalfRead) THEN Len(HalfRead) ELSE Locals.i

\* E1 is reported as the code E1
E1IsOneCode ==
  (Returned("validateField10") /\ ComNavOf(input) = <<"E", "1", "E">>) =>
    /\ result[1].message = <<"COM/NAV: ">> \o <<"E", "1">>
    /\ result[2].message = <<"Unknown COM/NAV codes: ">> \o <<"E">>

\* C25: validateField10 tokenizes each equipment half from left to right,
\* at every position taking the two-character code when it is in the
\* table, otherwise the one-character code, otherwise one unknown
\* character; every character of the half belongs to exactly one token,
\* the tokens in order concatenate to the half, the loop terminates, and
\* E1 is read as the code E1.
C25_GreedyTokenization ==
  /\ [][PassTakesOneToken]_vars
  /\ [](TokensCoverWhatWasRead /\ E1IsOneCode)
  /\ [](Returned("validateField10") => result = validateField10(input))
  /\ InLoop ~> pc = "done"

\* the half E1E has been tokenized: E1 is a code and the last E is not
C25_Witness ==
  /\ pc = "comNav" /\ ComNavOf(input) = <<"E", "1", "E">>
  /\ Locals.i = 3 /\ Locals.valid = <<<<"E", "1">>>> /\ Locals.invalid = <<<<"E">>>>

(***************************************************************************)
(* parseField18 on its own                                                 *)
(***************************************************************************)
\* parseField18 is called on text and returns returned
ParseField18(text, returned) ==
  /\ pc = "idle"
  /\ pc' = "done" /\ call' = "parseField18" /\ input' = text /\ result' = returned
  /\ UNCHANGED <<sessions, tables>>

\* items of Field 18: a prefix with two values, values of several words, a
\* value that holds a known prefix inside a word (ADEP/), an empty value,
\* an unknown prefix and a word that is no item
Field18Items ==
  {<<"R", "M", "K", "/", "F", "I", "R", "S", "T">>, <<"R", "M", "K", "/", "S", "E", "C", "O", "N", "D", " ", "T", "E", "X", "T">>, <<"D", "O", "F", "/", "2", "6", "0", "2", "1", "5">>, <<"S", "T", "S", "/", "A", "D", "E", "P", "/", "O", "O", "S", "A">>, <<"R", "E", "G", "/">>,
   <<"X", "Y", "Z", "/", "A", "B", "C">>, <<"N", "I", "L">>, <<"D", "E", "S", "T", "/", "O", "O", "S", "A", " ", "A", "L", "T", "N", "/", "O", "O", "M", "S">>, <<"P", "B", "N", "/", "A", "1", "B", "2">>}

\* the texts of the Field 18 inputs, the texts of one and of two of the
\* items, and texts where a prefix occurs two and three times
ParseField18Inputs ==
  Field18Inputs
  \cup Field18Items
  \cup {a \o <<" ">> \o b : a \in Field18Items, b \in Field18Items}
  \cup {<<"R", "M", "K", "/", "F", "I", "R", "S", "T", " ", "D", "O", "F", "/", "2", "6", "0", "2", "1", "5", " ", " ", "R", "M", "K", "/", "S", "E", "C", "O", "N", "D", " ", "T", "E", "X", "T", " ">>, <<"R", "M", "K", "/", "A", " ", "R", "M", "K", "/", "B", " ", "R", "M", "K", "/", "C">>,
        <<"N", "I", "L", " ", "R", "M", "K", "/", "A", " ", "D", "O", "F", "/", "2", "6", "0", "2", "1", "5", " ", "R", "M", "K", "/">>}

NextField18 ==
  \/ \E text \in ParseField18Inputs : ParseField18(text, parseField18(text))
  \/ Return

SpecField18 == Init /\ [][NextField18]_vars

\* the known prefixes
KnownPrefixes == {FIELD18_PREFIXES[k].key : k \in 1..Len(FIELD18_PREFIXES)}

\* the occurrences of known prefixes in the text: the 0-based position
\* where the prefix starts, and the prefix
PrefixOccurrences(text) ==
  {o \in [at : 0..(Len(text) - 1), prefix : KnownPrefixes] :
     OccursAt(text, o.prefix, o.at + 1)}

\* where the value of the occurrence starts: the end of the occurrence
SpanStart(o) == o.at + Len(o.prefix)

\* where the value of the occurrence ends: the start of the next occurrence
\* in position order, or the end of the text
SpanEnd(text, o) ==
  LET later == {q.at : q \in {q \in PrefixOccurrences(text) : q.at > o.at}}
  IN  IF later = {} THEN Len(text) ELSE SetMin(later)

\* the prefix without its stroke
KeyOf(prefix) == SubSeq(prefix, 1, Len(prefix) - 1)

\* the last occurrence of the prefix of o
IsLastOfItsPrefix(text, o) ==
  \A q \in PrefixOccurrences(text) : q.prefix = o.prefix => q.at <= o.at

\* C26: the map of parseField18 is an interval partition of the text: every
\* key is a known prefix without its stroke, each prefix that occurs is one
\* key, the value of a prefix is the trimmed text between the end of its
\* occurrence and the start of the next occurrence of a known prefix (or the
\* end of the text), the spans of distinct occurrences do not overlap, and a
\* prefix that occurs more than once is a single key with the value of its
\* last occurrence.
C26_MapIsIntervalPartition ==
  Returned("parseField18") =>
    LET occ == PrefixOccurrences(input)
    IN  /\ {result[k].key : k \in 1..Len(result)} = {KeyOf(o.prefix) : o \in occ}
        /\ \A j, k \in 1..Len(result) : result[j].key = result[k].key => j = k
        /\ \A o \in occ :
             /\ SpanStart(o) <= SpanEnd(input, o)
             /\ IsLastOfItsPrefix(input, o) =>
                  Get(result, KeyOf(o.prefix)) = Trim(Substring(input, SpanStart(o), SpanEnd(input, o)))
        /\ \A o, q \in occ : o.at < q.at => SpanEnd(input, o) <= q.at /\ SpanEnd(input, o) <= SpanStart(q)

\* a text where RMK/ occurs twice, with another item in between, has been
\* parsed: the map has the value of the second occurrence
C26_Witness ==
  /\ Returned("parseField18")
  /\ input = <<"R", "M", "K", "/", "F", "I", "R", "S", "T", " ", "D", "O", "F", "/", "2", "6", "0", "2", "1", "5", " ", " ", "R", "M", "K", "/", "S", "E", "C", "O", "N", "D", " ", "T", "E", "X", "T", " ">>
  /\ Len(result) = 2
  /\ Get(result, <<"R", "M", "K">>) = <<"S", "E", "C", "O", "N", "D", " ", "T", "E", "X", "T">>
  /\ Get(result, KeyDOF) = <<"2", "6", "0", "2", "1", "5">>

(***************************************************************************)
(* Cross-checks and the aircraft type designator                           *)
(***************************************************************************)
\* the Cross-check error for R, and the one for Z
RequiresPbn == <<"Field 10 includes R (PBN approved) but Field 18 has no PBN/ entry">>

RequiresComNavDat == <<"Field 10 includes Z but Field 18 has no COM/, NAV/, or DAT/">>

\* C27: the Cross-check errors for R (PBN required) and for Z (COM/NAV/DAT
\* required) are raised only when the letter occurs among the equipment
\* codes of the flight plan; an R or Z that occurs only in the aircraft type
\* designator of Field 9 never triggers them.
C27_TypeDesignatorTriggersNoCrossCheck ==
  Parsed =>
    /\ HasFindingWith(result.results, "Cross-check", "error", RequiresPbn)
         => Includes(EquipmentOf(result.parsed.field9), <<"R">>)
    /\ HasFindingWith(result.results, "Cross-check", "error", RequiresComNavDat)
         => Includes(EquipmentOf(result.parsed.field9), <<"Z">>)

(***************************************************************************)
(* The groups of the message and the fields of the record                  *)
(***************************************************************************)
\* the part is a departure aerodrome and EOBT: four letters and four digits
IsDepartureGroup(part) ==
  /\ Len(part) = 8
  /\ \A j \in 1..4 : part[j] \in Upper
  /\ \A j \in 5..8 : part[j] \in Digit

\* the place of the departure group among the parts: the first part that is
\* one (0 when there is none)
DeparturePlace(parts) ==
  IF \E k \in 1..Len(parts) : IsDepartureGroup(parts[k])
  THEN SetMin({k \in 1..Len(parts) : IsDepartureGroup(parts[k])})
  ELSE 0

\* C28: whichever extraction strategy produces the record, field13 is the
\* departure aerodrome and EOBT group of the message, field15 the group
\* after it (the route) and field16 the next one (the destination), also
\* when the equipment is joined to Field 9 by a hyphen; the lenient split
\* shifts no group into a neighbouring field.
C28_GroupsAreNotShifted ==
  LET parts == RemainingParts(input)
      place == DeparturePlace(parts)
  IN  (/\ Returned("parseFPL") /\ result # Null
       /\ place > 0 /\ place + 2 <= Len(parts)) =>
        /\ result.field13 = parts[place]
        /\ result.field15 = parts[place + 1]
        /\ result.field16 = parts[place + 2]

(***************************************************************************)
(* Text inserted by an expansion                                           *)
(***************************************************************************)
\* C29: within one pass of decodeNotamText each abbreviation occurrence of
\* the input is expanded exactly once: the text returned is the input with
\* each key read in it replaced by its expansion, and the text of an
\* expansion is left as it is (the DME of "ILS with DME", the NOTAM of "New
\* NOTAM").
C29_EachOccurrenceExpandedOnce ==
  Returned("decodeNotamText") =>
    /\ result = SpacesCollapsed(EachKeyExpanded(input))
    /\ input = <<"I", "L", "S", "/", "D", "M", "E", " ", "U", "/", "S">> => result = <<"I", "L", "S", " ", "w", "i", "t", "h", " ", "D", "M", "E", " ", "U", "n", "s", "e", "r", "v", "i", "c", "e", "a", "b", "l", "e">>
    /\ input = <<"N", "O", "T", "A", "M", "N">> => result = <<"N", "e", "w", " ", "N", "O", "T", "A", "M">>

(***************************************************************************)
(* The readiness finding is counted by the summary                         *)
(***************************************************************************)
\* the number of error findings of results before its last finding
ErrorsBeforeLast(results) ==
  Cardinality({k \in 1..(Len(results) - 1) : results[k].severity = "error"})

\* C30: on a successful parse the CADAS-ATS finding occurs exactly once, as
\* the last finding, and the summary counts it: when n >= 1 findings before
\* it are errors, its message reports n while summary.errors is n + 1, and
\* summary.errors is never exactly 1 for a parsed flight plan.
C30_VerdictIsCountedBySummary ==
  Parsed =>
    LET results == result.results
        last == results[Len(results)]
        n == ErrorsBeforeLast(results)
    IN  /\ Len(FindingsFor(results, "CADAS-ATS")) = 1
        /\ last.field = "CADAS-ATS"
        /\ n >= 1 =>
             /\ last.severity = "error"
             /\ last.message
                  = NumToStr(n) \o <<" error(s) must be resolved before filing in CADAS-ATS">>
             /\ result.summary.errors = n + 1
        /\ result.summary.errors # 1

\* a parsed flight plan with errors before the readiness finding, which the
\* summary counts with one more
C30_Witness ==
  /\ Parsed
  /\ ErrorsBeforeLast(result.results) >= 1
  /\ result.summary.errors = ErrorsBeforeLast(result.results) + 1

====
